---- MODULE Spec2Model ----
(***************************************************************************)
(* NovaeOS kernel runtime core: timer / interrupt dispatch, task model,    *)
(* round-robin scheduler and the bitmap physical frame allocator.          *)
(*                                                                         *)
(* The CPU is a single core.  Interrupt gates clear IF, so every handler   *)
(* (isr_common_handler and what it dispatches to) runs to completion; an   *)
(* operation called from task context (sleep, block, exit, ...) is taken   *)
(* here together with the `int $0x20` it ends with.                        *)
(***************************************************************************)
EXTENDS Integers, Sequences, FiniteSets, TLC

\* ------------------------------------------------------------------ bounds
MaxProcs == 4          \* process identifiers the model distinguishes
MaxTasks == 2          \* tasks created in the general specification
MaxUnderflow == 1      \* how far ready_count may wrap below zero
MaxRRTicks == 12       \* length of the recorded round-robin window
PmmPages == 5          \* frames managed in the allocator specification
PmmSlack == 4          \* bitmap bits kept beyond total_pages
KernelPages == 1       \* frames of the kernel image, from frame 1
VmmPages == 6          \* frames managed in the paging specification
VmmFan == 2            \* entries per page table (512 in the build)
HeapPages == 7         \* frames managed in the heap specification
HeapInitPages == 1     \* initial heap size in pages (4096 in the build)
MaxHeaders == 5        \* block headers written before allocation stops
UserPages == 44        \* frames managed in the user-task specification

\* ------------------------------------------------------- program constants
NULL == 0
BOOT == NULL            \* the boot thread: no task
PAGE_SIZE == 4096
STACK_PAGES == 4
IRQ_BASE == 32
IRQ_TIMER == 0
TIMER_HZ == 100

Procs == 1..MaxProcs
TimerVector == IRQ_BASE + IRQ_TIMER

READY == "READY"
RUNNING == "RUNNING"
BLOCKED == "BLOCKED"
SLEEPING == "SLEEPING"
ZOMBIE == "ZOMBIE"
DEAD == "DEAD"
NONE == "NONE"

VARIABLES
    bootpc,              \* position of the boot thread in kernel_main
    interrupt_handlers,  \* isr.c: handler registered for the timer vector
    interrupts_on,       \* CPU interrupt flag of the code outside handlers
    timer_ticks,         \* timer.c
    timer_frequency,     \* timer.c
    next_pid,            \* process.c
    current_process,     \* process.c
    procs,               \* the task control blocks, by pid (NONE: no such task)
    ready_queue_head,    \* scheduler.c
    ready_queue_tail,    \* scheduler.c
    ready_count,         \* scheduler.c
    scheduler_running,   \* scheduler.c
    cpu,                 \* whose register frame the CPU returns to (BOOT or pid)
    page_bitmap,         \* pmm.c: set of page numbers whose bit is 1
    used_pages,          \* pmm.c
    total_pages,         \* pmm.c
    picks,               \* history: tasks returned by scheduler_pick_next
    sleep_call,          \* history: sleep_ms argument and uptime_ms read before it
    held,                \* history: frames handed out and not yet freed
    last_alloc,          \* history: frames returned by the latest allocation
    vga,                 \* vga.c: what the latest operation printed ("": nothing)
    page_tables,         \* memory of the frames, read as page tables
    current_pml4,        \* vmm.c: frame of the active top-level table
    vm_req,              \* history: per page, the frame and flags of the mapping in force
    heap_mem,            \* heap.c: block headers in heap memory, by address
    first_block,         \* heap.c
    heap_end,            \* heap.c
    heap_size,           \* heap.c
    allocation_count,    \* heap.c
    live,                \* history: pointers handed out by kmalloc and not freed
    freed,               \* history: pointers freed and not handed out again since
    syscall_table,       \* syscall.c: handler per call number
    regs,                \* the trap frame of the latest trap, as the handler left it
    frame_in,            \* history: the trap frame of the latest trap at entry
    pic_eoi,             \* the IRQ lines the latest trap passed to pic_send_eoi
    invoked,             \* history: the handlers the latest trap called, in order
    halted,              \* the CPU sits in the cli; hlt loop of isr_common_handler
    disk,                \* the SimpleFS image on the block device the driver reads
    vfs_root,            \* vfs.c
    file_descriptors,    \* vfs.c
    mounts,              \* vfs.c: the mount table
    fs_call,             \* history: the latest vfs call, its arguments and result
    dev_blocks,          \* the block device: which blocks a write has reached
    blk_call,            \* history: the latest block-layer call and what it moved
    op_pre,              \* history: the task inside scheduler_block and the state it began in
    op_log,              \* history: the traps taken since that scheduler_block began
    pre_task,            \* the task on the CPU, of two that call the frame allocator
    pre_local,           \* per task: position in pmm_alloc_page, its local, frames it holds
    context,             \* process_t.context of each task: the saved cpu_context_t
    cpu_regs,            \* the registers of the CPU, which a trap pushes as registers_t
    kernel_tss           \* the task state segment: rsp0 is loaded on a trap from ring 3

schedVars == <<bootpc, interrupt_handlers, interrupts_on, timer_ticks,
               timer_frequency, next_pid, current_process, procs,
               ready_queue_head, ready_queue_tail, ready_count,
               scheduler_running, cpu>>
pmmVars == <<page_bitmap, used_pages, total_pages>>
histVars == <<picks, sleep_call, held, last_alloc>>
vmmVars == <<page_tables, current_pml4, vm_req>>
heapVars == <<heap_mem, first_block, heap_end, heap_size, allocation_count,
              live, freed>>
trapVars == <<syscall_table, regs, frame_in, pic_eoi, invoked, halted>>
fsVars == <<disk, vfs_root, file_descriptors, mounts, fs_call>>
blkVars == <<dev_blocks, blk_call>>
atomVars == <<op_pre, op_log>>
preVars == <<pre_task, pre_local>>
swVars == <<context, cpu_regs, kernel_tss>>
postVars == <<fsVars, blkVars, atomVars, preVars, swVars>>
lateVars == <<trapVars, postVars>>
extVars == <<vga, vmmVars, heapVars, lateVars>>
vars == <<schedVars, pmmVars, histVars, extVars>>

\* ---------------------------------------------------------------- helpers
Task(st, prio, stack) ==
    [state |-> st, next |-> NULL, prev |-> NULL, sleep_until |-> 0,
     kernel_stack |-> stack, priority |-> prio, pc |-> "body"]

NoTask == Task(NONE, 0, NULL)

\* The scheduler's view of the kernel: task blocks and the ready queue.
Sched(ps, h, t, c) == [procs |-> ps, head |-> h, tail |-> t, count |-> c]

\* ------------------------------------------------------- timer.c (uptime)
timer_get_ticks == timer_ticks

timer_get_uptime_ms ==
    IF timer_frequency = 0 THEN 0 ELSE (timer_ticks * 1000) \div timer_frequency

\* ------------------------------------------------------------ scheduler.c
\* scheduler_add_process: link at the tail, count++, state := READY.
scheduler_add_process(Q, p) ==
    LET cleared == [Q.procs EXCEPT ![p].next = NULL, ![p].prev = NULL]
        linked  == IF Q.head = NULL
                   THEN cleared
                   ELSE LET a == [cleared EXCEPT ![Q.tail].next = p]
                        IN  [a EXCEPT ![p].prev = Q.tail]
    IN  Sched([linked EXCEPT ![p].state = READY],
              IF Q.head = NULL THEN p ELSE Q.head,
              p,
              Q.count + 1)

\* scheduler_remove_process: unlink whatever the task's own links say.
scheduler_remove_process(Q, p) ==
    LET pv == Q.procs[p].prev
        nx == Q.procs[p].next
        a  == IF pv # NULL THEN [Q.procs EXCEPT ![pv].next = nx] ELSE Q.procs
        h  == IF pv # NULL THEN Q.head ELSE nx
        b  == IF nx # NULL THEN [a EXCEPT ![nx].prev = pv] ELSE a
        t  == IF nx # NULL THEN Q.tail ELSE pv
    IN  Sched([b EXCEPT ![p].next = NULL, ![p].prev = NULL],
              h, t, Q.count - 1)

\* process_wakeup_sleeping: every sleeper whose deadline has passed is READY.
process_wakeup_sleeping(ps, now) ==
    [p \in Procs |->
        IF ps[p].state = SLEEPING /\ now >= ps[p].sleep_until
        THEN [ps[p] EXCEPT !.state = READY]
        ELSE ps[p]]

\* scheduler_pick_next: wake sleepers, take the head, rotate it to the tail.
\* The result carries the chosen task in .next (NULL when the queue is empty).
\* (NoRotatePickNext: a pick that leaves the head where it is.)
NoRotatePickNext(Q, now) ==
    LET W == [Q EXCEPT !.procs = process_wakeup_sleeping(Q.procs, now)]
    IN  [q |-> W, next |-> W.head]

scheduler_pick_next(Q, now) ==
    LET W == [Q EXCEPT !.procs = process_wakeup_sleeping(Q.procs, now)]
    IN  IF W.head = NULL
        THEN [q |-> W, next |-> NULL]
        ELSE [q |-> scheduler_add_process(scheduler_remove_process(W, W.head), W.head),
              next |-> W.head]

\* scheduler_schedule: the handler registered for the timer vector.
\* K is [q, current, cpu]; the result has the same shape.
scheduler_schedule(K, running, now) ==
    IF ~running THEN K
    ELSE LET pk == scheduler_pick_next(K.q, now)
             nx == pk.next
             cur == K.current
         IN  IF nx = NULL \/ cur = nx
             THEN [K EXCEPT !.q = pk.q]
             ELSE LET saved == IF cur # NULL /\ pk.q.procs[cur].state = RUNNING
                               THEN [pk.q.procs EXCEPT ![cur].state = READY]
                               ELSE pk.q.procs
                  IN  [q |-> [pk.q EXCEPT !.procs = [saved EXCEPT ![nx].state = RUNNING]],
                       current |-> nx,
                       cpu |-> nx]

\* timer_handler: the handler timer_init registers (no callback is ever
\* registered with timer_register_callback, so only the tick is counted).
timer_handler(ticks) == ticks + 1

\* ------------------------------------------------------------------ pmm.c
\* The allocator state is M = [bitmap, used, total]; results carry .ret.
\* A uint32_t is held as the integer congruent to it modulo 2^32 that lies in
\* [-2^31, 2^31): 0xFFFFFFFF is -1.  Sums and differences are then the plain
\* ones; only the unsigned comparison differs.
ULess(a, b) ==
    IF (a < 0) = (b < 0) THEN a < b ELSE b < 0

NOPAGE == -1                  \* (uint32_t)-1
OOB == NOPAGE - 1             \* a scan that would leave the bitmap array

Pmm(bm, u, t) == [bitmap |-> bm, used |-> u, total |-> t]

\* Bits the model keeps for the array page_bitmap[BITMAP_SIZE].
BitmapBits(M) == M.total + PmmSlack

bitmap_test(M, bit) == bit \in M.bitmap

RECURSIVE FirstFree(_, _)
FirstFree(M, i) ==
    IF i >= M.total THEN NOPAGE
    ELSE IF ~bitmap_test(M, i) THEN i
    ELSE FirstFree(M, i + 1)

find_free_page(M) == FirstFree(M, 0)

\* Offset of the first used bit in the window [i, i+count), or count if none.
RECURSIVE FirstUsedIn(_, _, _, _)
FirstUsedIn(M, i, count, j) ==
    IF j >= count THEN count
    ELSE IF bitmap_test(M, i + j) THEN j
    ELSE FirstUsedIn(M, i, count, j + 1)

\* The sliding window of find_free_pages: on a used bit at i+j the scan
\* resumes at i+j+1.  limit is total_pages - count + 1 in 32-bit arithmetic.
RECURSIVE Window(_, _, _, _)
Window(M, count, limit, i) ==
    IF ~ULess(i, limit) THEN NOPAGE
    ELSE IF i + count > BitmapBits(M) THEN OOB
    ELSE LET j == FirstUsedIn(M, i, count, 0)
         IN  IF j = count THEN i ELSE Window(M, count, limit, i + j + 1)

\* A window search that tests only the first bit of each window.
RECURSIVE FirstBitWindow(_, _, _, _)
FirstBitWindow(M, count, limit, i) ==
    IF ~ULess(i, limit) THEN NOPAGE
    ELSE IF i + count > BitmapBits(M) THEN OOB
    ELSE IF ~bitmap_test(M, i) THEN i
    ELSE FirstBitWindow(M, count, limit, i + 1)

FirstBitFindFreePages(M, count) ==
    IF count = 0 THEN NOPAGE
    ELSE IF count = 1 THEN find_free_page(M)
    ELSE FirstBitWindow(M, count, M.total - count + 1, 0)

find_free_pages(M, count) ==
    IF count = 0 THEN NOPAGE
    ELSE IF count = 1 THEN find_free_page(M)
    ELSE Window(M, count, M.total - count + 1, 0)

pmm_alloc_page(M) ==
    LET page == find_free_page(M)
    IN  IF page = NOPAGE
        THEN [m |-> M, ret |-> 0]
        ELSE [m |-> Pmm(M.bitmap \cup {page}, M.used + 1, M.total),
              ret |-> page * PAGE_SIZE]

pmm_alloc_pages(M, count) ==
    LET page == IF count = 0 THEN NOPAGE ELSE find_free_pages(M, count)
    IN  IF page = NOPAGE
        THEN [m |-> M, ret |-> 0]
        ELSE [m |-> Pmm(M.bitmap \cup (page..(page + count - 1)),
                        M.used + count, M.total),
              ret |-> page * PAGE_SIZE]

\* (UntestedFreePage: a free that clears the bit without testing it first.)
UntestedFreePage(M, addr) ==
    LET page == addr \div PAGE_SIZE
    IN  IF addr = 0 \/ page >= M.total
        THEN M
        ELSE Pmm(M.bitmap \ {page}, M.used - 1, M.total)

pmm_free_page(M, addr) ==
    LET page == addr \div PAGE_SIZE
    IN  IF addr = 0 \/ page >= M.total \/ ~bitmap_test(M, page)
        THEN M
        ELSE Pmm(M.bitmap \ {page}, M.used - 1, M.total)

\* The branch of pmm_free_page that prints the double-free warning.
DoubleFree(M, addr) ==
    /\ addr # 0
    /\ addr \div PAGE_SIZE < M.total
    /\ ~bitmap_test(M, addr \div PAGE_SIZE)

WARN_DOUBLE_FREE == "WARNING: Double free of page"

RECURSIVE FreeLoop(_, _, _, _)
FreeLoop(M, addr, count, i) ==
    IF i >= count THEN M
    ELSE FreeLoop(pmm_free_page(M, addr + i * PAGE_SIZE), addr, count, i + 1)

pmm_free_pages(M, addr, count) == FreeLoop(M, addr, count, 0)

pmm_mark_used(M, addr) ==
    LET page == addr \div PAGE_SIZE
    IN  IF page >= M.total \/ bitmap_test(M, page)
        THEN M
        ELSE Pmm(M.bitmap \cup {page}, M.used + 1, M.total)

RECURSIVE MarkLoop(_, _, _, _)
MarkLoop(M, addr, count, i) ==
    IF i >= count THEN M
    ELSE MarkLoop(pmm_mark_used(M, addr + i * PAGE_SIZE), addr, count, i + 1)

\* pmm_init: an empty bitmap, then frame 0 and the kernel image marked used.
\* (page_bitmap is part of the kernel image, so marking it adds nothing.)
pmm_init(mem_pages, kernel_start, kernel_pages) ==
    MarkLoop(pmm_mark_used(Pmm({}, 0, mem_pages), 0),
             kernel_start * PAGE_SIZE, kernel_pages, 0)

\* ------------------------------------------------------------------ vmm.c
\* A page-table entry is [frame, flags]: the code's phys | flags with phys
\* page aligned.  Tables have VmmFan entries; T maps each frame that holds a
\* page table to its contents (vmm_phys_to_virt is the direct map).
PAGE_PRESENT == "P"
PAGE_WRITE == "W"
PAGE_USER == "U"
PAGE_FLAGS_KERNEL == {PAGE_PRESENT, PAGE_WRITE}
PAGE_FLAGS_USER == {PAGE_PRESENT, PAGE_WRITE, PAGE_USER}

\* First top-level index of the kernel (upper) half: 256 of 512 in the build.
UpperHalf == VmmFan \div 2

ZeroEntry == [frame |-> 0, flags |-> {}]
ZeroTable == [i \in 0..(VmmFan - 1) |-> ZeroEntry]

PAGE_ALIGN_DOWN(addr) == addr - (addr % PAGE_SIZE)
PT_INDEX(addr) == (addr \div PAGE_SIZE) % VmmFan
PD_INDEX(addr) == (addr \div (PAGE_SIZE * VmmFan)) % VmmFan
PDPT_INDEX(addr) == (addr \div (PAGE_SIZE * VmmFan * VmmFan)) % VmmFan
PML4_INDEX(addr) == (addr \div (PAGE_SIZE * VmmFan * VmmFan * VmmFan)) % VmmFan

get_or_create_table(T, M, table, index, flags) ==
    LET entry == T[table][index]
        Created(a) ==
            IF a.ret = 0
            THEN [t |-> T, m |-> M, ret |-> 0]
            ELSE [t |-> [((a.ret \div PAGE_SIZE) :> ZeroTable) @@ T
                            EXCEPT ![table][index] =
                                [frame |-> a.ret \div PAGE_SIZE, flags |-> flags]],
                  m |-> a.m, ret |-> a.ret]
    IN  IF PAGE_PRESENT \in entry.flags
        THEN [t |-> T, m |-> M, ret |-> entry.frame * PAGE_SIZE]
        ELSE Created(pmm_alloc_page(M))

\* pdpt, pd and pt are the results of the three get_or_create_table calls.
vmm_map_page(T, M, pml4, virt0, phys0, flags) ==
    LET virt == PAGE_ALIGN_DOWN(virt0)
        phys == PAGE_ALIGN_DOWN(phys0)
        Failed(r) == [t |-> r.t, m |-> r.m, ret |-> -1]
        WithPT(pt) ==
            IF pt.ret = 0 THEN Failed(pt)
            ELSE [t |-> [pt.t EXCEPT ![pt.ret \div PAGE_SIZE][PT_INDEX(virt)] =
                            [frame |-> phys \div PAGE_SIZE,
                             flags |-> flags \cup {PAGE_PRESENT}]],
                  m |-> pt.m, ret |-> 0]
        WithPD(pd) ==
            IF pd.ret = 0 THEN Failed(pd)
            ELSE WithPT(get_or_create_table(pd.t, pd.m, pd.ret \div PAGE_SIZE,
                                            PD_INDEX(virt), PAGE_FLAGS_KERNEL))
        WithPDPT(pdpt) ==
            IF pdpt.ret = 0 THEN Failed(pdpt)
            ELSE WithPD(get_or_create_table(pdpt.t, pdpt.m, pdpt.ret \div PAGE_SIZE,
                                            PDPT_INDEX(virt), PAGE_FLAGS_KERNEL))
    IN  WithPDPT(get_or_create_table(T, M, pml4, PML4_INDEX(virt), PAGE_FLAGS_KERNEL))

\* The entries met on the walk from the top-level table down to virt's page,
\* as far as they are present: <<pml4e, pdpte, pde, pte>> or a prefix.
Walk(T, pml4, virt) ==
    LET e4 == T[pml4][PML4_INDEX(virt)]
        e3 == T[e4.frame][PDPT_INDEX(virt)]
        e2 == T[e3.frame][PD_INDEX(virt)]
        e1 == T[e2.frame][PT_INDEX(virt)]
    IN  IF PAGE_PRESENT \notin e4.flags THEN <<e4>>
        ELSE IF PAGE_PRESENT \notin e3.flags THEN <<e4, e3>>
        ELSE IF PAGE_PRESENT \notin e2.flags THEN <<e4, e3, e2>>
        ELSE <<e4, e3, e2, e1>>

vmm_unmap_page(T, pml4, virt0) ==
    LET virt == PAGE_ALIGN_DOWN(virt0)
        w == Walk(T, pml4, virt)
    IN  IF Len(w) < 4 THEN T
        ELSE [T EXCEPT ![w[3].frame][PT_INDEX(virt)] = ZeroEntry]

vmm_get_physical(T, pml4, virt0) ==
    LET page_offset == virt0 % PAGE_SIZE
        w == Walk(T, pml4, PAGE_ALIGN_DOWN(virt0))
    IN  IF Len(w) < 4 \/ PAGE_PRESENT \notin w[4].flags THEN 0
        ELSE w[4].frame * PAGE_SIZE + page_offset

vmm_is_mapped(T, pml4, virt) == vmm_get_physical(T, pml4, virt) # 0

\* ----------------------------------------------------------------- heap.c
\* The heap is H = [mem, first, hend, hsize, count]: mem maps the address of
\* every block header written so far to its contents (headers that are no
\* longer linked stay in memory), first is first_block, hend and hsize are
\* heap_end and heap_size, count is allocation_count.  Results carry the
\* page tables .t and the frame allocator .m that heap_expand works on.
HEAP_MAGIC == "HEAP"
HDR_SIZE == 32                \* sizeof(heap_block_t)
MIN_BLOCK_SIZE == 32
\* heap_start handed to heap_init: the first page of the upper half.
HeapStart == UpperHalf * VmmFan * VmmFan * VmmFan * PAGE_SIZE

ERR_EXPAND_PMM == "ERROR: Failed to expand heap (out of physical memory)"
ERR_EXPAND_MAP == "ERROR: Failed to map heap page"
ERR_HEAP_INIT == "ERROR: Failed to initialize heap"
ERR_CORRUPT == "ERROR: Heap corruption detected"
ERR_BAD_MAGIC == "ERROR: Invalid free (bad magic)"
ERR_DOUBLE_FREE == "ERROR: Double free detected"

Heap(mem, first, hend, hsize, count) ==
    [mem |-> mem, first |-> first, hend |-> hend, hsize |-> hsize, count |-> count]

Block(size, free, next, prev) ==
    [magic |-> HEAP_MAGIC, size |-> size, free |-> free, next |-> next, prev |-> prev]

\* Store header hd at address a.
Poke(mem, a, hd) == (a :> hd) @@ mem

PAGE_ALIGN(n) == ((n + PAGE_SIZE - 1) \div PAGE_SIZE) * PAGE_SIZE
BYTES_TO_PAGES(n) == (n + PAGE_SIZE - 1) \div PAGE_SIZE

\* The page loop of heap_expand from page i on.
RECURSIVE ExpandLoop(_, _, _, _, _, _)
ExpandLoop(T, M, pml4, hend, pages_needed, i) ==
    LET Mapped(phys, r) ==
            IF r.ret # 0
            THEN [t |-> r.t, m |-> pmm_free_page(r.m, phys), ret |-> -1,
                  msg |-> ERR_EXPAND_MAP]
            ELSE ExpandLoop(r.t, r.m, pml4, hend, pages_needed, i + 1)
        Taken(a) ==
            IF a.ret = 0
            THEN [t |-> T, m |-> M, ret |-> -1, msg |-> ERR_EXPAND_PMM]
            ELSE Mapped(a.ret, vmm_map_page(T, a.m, pml4, hend + i * PAGE_SIZE,
                                            a.ret, PAGE_FLAGS_KERNEL))
    IN  IF i >= pages_needed THEN [t |-> T, m |-> M, ret |-> 0, msg |-> ""]
        ELSE Taken(pmm_alloc_page(M))

heap_expand(H, T, M, pml4, additional_size0) ==
    LET additional_size == PAGE_ALIGN(additional_size0)
        Looped(r) ==
            IF r.ret # 0
            THEN [h |-> H, t |-> r.t, m |-> r.m, ret |-> -1, msg |-> r.msg]
            ELSE [h |-> [H EXCEPT !.hend = @ + additional_size,
                                  !.hsize = @ + additional_size],
                  t |-> r.t, m |-> r.m, ret |-> 0, msg |-> ""]
    IN  Looped(ExpandLoop(T, M, pml4, H.hend, BYTES_TO_PAGES(additional_size), 0))

heap_init(T, M, pml4, start_addr, initial_size) ==
    LET Expanded(e) ==
            IF e.ret # 0
            THEN [h |-> e.h, t |-> e.t, m |-> e.m, msg |-> ERR_HEAP_INIT]
            ELSE [h |-> [e.h EXCEPT !.mem = Poke(<<>>, start_addr,
                                               Block(e.h.hsize, TRUE, NULL, NULL)),
                                    !.first = start_addr],
                  t |-> e.t, m |-> e.m, msg |-> ""]
    IN  Expanded(heap_expand(Heap(<<>>, NULL, start_addr, 0, 0), T, M, pml4,
                             initial_size))

\* find_free_block from block current on: [ret, msg].
RECURSIVE FindFrom(_, _, _)
FindFrom(mem, current, size) ==
    IF current = NULL THEN [ret |-> NULL, msg |-> ""]
    ELSE IF mem[current].magic # HEAP_MAGIC THEN [ret |-> NULL, msg |-> ERR_CORRUPT]
    ELSE IF mem[current].free /\ mem[current].size >= size
    THEN [ret |-> current, msg |-> ""]
    ELSE FindFrom(mem, mem[current].next, size)

find_free_block(H, size) == FindFrom(H.mem, H.first, size)

\* (SplitNoBackLink: a split_block that leaves block->next->prev as it was.)
SplitNoBackLink(mem, block, size) ==
    IF mem[block].size >= size + HDR_SIZE + MIN_BLOCK_SIZE
    THEN LET new_block == block + size
             m1 == Poke(mem, new_block,
                        Block(mem[block].size - size, TRUE, mem[block].next, block))
         IN  [m1 EXCEPT ![block].next = new_block, ![block].size = size]
    ELSE mem

split_block(mem, block, size) ==
    IF mem[block].size >= size + HDR_SIZE + MIN_BLOCK_SIZE
    THEN LET new_block == block + size
             m1 == Poke(mem, new_block,
                        Block(mem[block].size - size, TRUE, mem[block].next, block))
             m2 == IF mem[block].next # NULL
                   THEN [m1 EXCEPT ![mem[block].next].prev = new_block]
                   ELSE m1
         IN  [m2 EXCEPT ![block].next = new_block, ![block].size = size]
    ELSE mem

\* coalesce_blocks from block current on.
RECURSIVE CoalesceFrom(_, _)
CoalesceFrom(mem, current) ==
    IF current = NULL \/ mem[current].next = NULL THEN mem
    ELSE LET nx == mem[current].next
         IN  IF mem[current].free /\ mem[nx].free
             THEN LET m1 == [mem EXCEPT ![current].size = @ + mem[nx].size,
                                        ![current].next = mem[nx].next]
                      m2 == IF mem[nx].next # NULL
                            THEN [m1 EXCEPT ![mem[nx].next].prev = current]
                            ELSE m1
                  IN  CoalesceFrom(m2, current)
             ELSE CoalesceFrom(mem, nx)

\* (NoCoalesce: a coalesce_blocks that merges nothing.)
NoCoalesce(H) == H

coalesce_blocks(H) == [H EXCEPT !.mem = CoalesceFrom(H.mem, H.first)]

RECURSIVE LastFrom(_, _)
LastFrom(mem, b) == IF mem[b].next = NULL THEN b ELSE LastFrom(mem, mem[b].next)

\* (RefreeKfree: a kfree that does not look at the free flag.)
RefreeKfree(H, ptr) ==
    LET block == ptr - HDR_SIZE
    IN  IF ptr = NULL THEN [h |-> H, msg |-> ""]
        ELSE IF H.mem[block].magic # HEAP_MAGIC THEN [h |-> H, msg |-> ERR_BAD_MAGIC]
        ELSE [h |-> coalesce_blocks([H EXCEPT !.mem[block].free = TRUE,
                                              !.count = @ - 1]),
              msg |-> ""]

kfree(H, ptr) ==
    LET block == ptr - HDR_SIZE
    IN  IF ptr = NULL THEN [h |-> H, msg |-> ""]
        ELSE IF H.mem[block].magic # HEAP_MAGIC THEN [h |-> H, msg |-> ERR_BAD_MAGIC]
        ELSE IF H.mem[block].free THEN [h |-> H, msg |-> ERR_DOUBLE_FREE]
        ELSE [h |-> coalesce_blocks([H EXCEPT !.mem[block].free = TRUE,
                                              !.count = @ - 1]),
              msg |-> ""]

\* The tail of kmalloc once block has been found or created.
Carve(H, block, total_size) ==
    LET m1 == split_block(H.mem, block, total_size)
    IN  [H EXCEPT !.mem = [m1 EXCEPT ![block].free = FALSE], !.count = @ + 1]

kmalloc(H, T, M, pml4, size) ==
    LET t0 == HDR_SIZE + size
        t1 == IF t0 < MIN_BLOCK_SIZE THEN MIN_BLOCK_SIZE ELSE t0
        total_size == ((t1 + 7) \div 8) * 8
        expand_size == IF total_size * 2 < PAGE_SIZE THEN PAGE_SIZE ELSE total_size * 2
        Expanded(f, e) ==
            LET block == e.h.hend - expand_size
                fresh == Poke(e.h.mem, block, Block(expand_size, TRUE, NULL, NULL))
                last == LastFrom(fresh, e.h.first)
                linked == IF e.h.first = NULL
                          THEN [e.h EXCEPT !.mem = fresh, !.first = block]
                          ELSE [e.h EXCEPT !.mem = [fresh EXCEPT ![last].next = block,
                                                                 ![block].prev = last]]
            IN  IF e.ret # 0
                THEN [h |-> e.h, t |-> e.t, m |-> e.m, ret |-> NULL, msg |-> e.msg]
                ELSE [h |-> Carve(linked, block, total_size), t |-> e.t, m |-> e.m,
                      ret |-> block + HDR_SIZE, msg |-> f.msg]
        Searched(f) ==
            IF f.ret # NULL
            THEN [h |-> Carve(H, f.ret, total_size), t |-> T, m |-> M,
                  ret |-> f.ret + HDR_SIZE, msg |-> f.msg]
            ELSE Expanded(f, heap_expand(H, T, M, pml4, expand_size))
    IN  IF size = 0 THEN [h |-> H, t |-> T, m |-> M, ret |-> NULL, msg |-> ""]
        ELSE Searched(find_free_block(H, total_size))

heap_get_allocation_count(H) == H.count

RECURSIVE UsedFrom(_, _)
UsedFrom(mem, current) ==
    IF current = NULL THEN 0
    ELSE (IF mem[current].free THEN 0 ELSE mem[current].size)
         + UsedFrom(mem, mem[current].next)

heap_get_used_size(H) == UsedFrom(H.mem, H.first)

\* -------------------------------------------- process.c: user task set-up
PROC_SIZE == 344              \* sizeof(process_t)
UserStackBase == 0            \* ustack_virt_base, in the lower half
UserCodeBase == UserStackBase + STACK_PAGES * PAGE_SIZE    \* user_code_virt

\* kzalloc: kmalloc, then the block's data is zeroed (headers left behind by
\* earlier blocks inside it lose their magic).
ZeroHeader == [magic |-> "", size |-> 0, free |-> FALSE, next |-> NULL, prev |-> NULL]

kzalloc(H, T, M, pml4, size) ==
    LET Zeroed(r) ==
            IF r.ret = NULL THEN r
            ELSE [r EXCEPT !.h.mem = [a \in DOMAIN r.h.mem |->
                                         IF a >= r.ret /\ a < r.ret + size
                                         THEN ZeroHeader ELSE r.h.mem[a]]]
    IN  Zeroed(kmalloc(H, T, M, pml4, size))

\* kmalloc_aligned: an oversized kmalloc, and the first multiple of alignment
\* (a power of two) at or after the pointer it returned.
kmalloc_aligned(H, T, M, pml4, size, alignment) ==
    LET r == kmalloc(H, T, M, pml4, size + alignment + HDR_SIZE)
    IN  IF r.ret = NULL THEN r
        ELSE [r EXCEPT !.ret = ((r.ret + alignment - 1) \div alignment) * alignment]

ERR_BAD_REALLOC == "ERROR: Invalid realloc (bad magic)"

\* memcpy(new_ptr, ptr, n) as far as block headers go: a header left behind
\* inside the source bytes is copied to the same offset of the destination.
CopyHeaders(mem, new_ptr, ptr, n) ==
    LET src == {a \in DOMAIN mem : a >= ptr /\ a + HDR_SIZE <= ptr + n}
        dst == {a - ptr + new_ptr : a \in src}
    IN  [a \in DOMAIN mem \cup dst |->
            IF a \in dst THEN mem[a - new_ptr + ptr] ELSE mem[a]]

\* krealloc: [h, t, m, ret, msg].
krealloc(H, T, M, pml4, ptr, new_size) ==
    LET block == ptr - HDR_SIZE
        current_size == H.mem[block].size - HDR_SIZE
        Moved(r) ==
            IF r.ret = NULL THEN r
            ELSE \* memcpy, then kfree(ptr)
                 LET copied == [r.h EXCEPT !.mem = CopyHeaders(r.h.mem, r.ret, ptr,
                                                               current_size)]
                     f == kfree(copied, ptr)
                 IN  [h |-> f.h, t |-> r.t, m |-> r.m, ret |-> r.ret, msg |-> f.msg]
    IN  IF ptr = NULL THEN kmalloc(H, T, M, pml4, new_size)
        ELSE IF new_size = 0
        THEN [h |-> kfree(H, ptr).h, t |-> T, m |-> M, ret |-> NULL,
              msg |-> kfree(H, ptr).msg]
        ELSE IF H.mem[block].magic # HEAP_MAGIC
        THEN [h |-> H, t |-> T, m |-> M, ret |-> NULL, msg |-> ERR_BAD_REALLOC]
        ELSE IF new_size <= current_size
        THEN [h |-> H, t |-> T, m |-> M, ret |-> ptr, msg |-> ""]
        ELSE Moved(kmalloc(H, T, M, pml4, new_size))

VALIDATE_LIMIT == 100000

\* heap_validate from block current on, count blocks having been visited.
RECURSIVE ValidateFrom(_, _, _)
ValidateFrom(mem, current, count) ==
    IF current = NULL THEN TRUE
    ELSE IF mem[current].magic # HEAP_MAGIC THEN FALSE
    ELSE IF mem[current].next # NULL /\ mem[mem[current].next].prev # current
    THEN FALSE
    ELSE IF count + 1 > VALIDATE_LIMIT THEN FALSE
    ELSE ValidateFrom(mem, mem[current].next, count + 1)

heap_validate(H) == ValidateFrom(H.mem, H.first, 0)

\* The table held by frame f; a frame that was never written as a table
\* reads as zeroes.
TableAt(T, f) == IF f \in DOMAIN T THEN T[f] ELSE ZeroTable
Touch(T, f) == IF f \in DOMAIN T THEN T ELSE (f :> ZeroTable) @@ T

\* One level of manual_map_page: the result of pmm_alloc_page is not tested,
\* so on exhaustion frame 0 is zeroed and installed.
ManualLevel(T, M, table, index) ==
    LET Created(a) ==
            [t |-> [((a.ret \div PAGE_SIZE) :> ZeroTable) @@ Touch(T, table)
                       EXCEPT ![table][index] =
                           [frame |-> a.ret \div PAGE_SIZE, flags |-> PAGE_FLAGS_USER]],
             m |-> a.m, next |-> a.ret \div PAGE_SIZE]
    IN  IF PAGE_PRESENT \in TableAt(T, table)[index].flags
        THEN [t |-> T, m |-> M, next |-> TableAt(T, table)[index].frame]
        ELSE Created(pmm_alloc_page(M))

manual_map_page(T, M, pml4, virt, phys, flags) ==
    LET WithPT(pt) ==
            [t |-> [Touch(pt.t, pt.next) EXCEPT ![pt.next][PT_INDEX(virt)] =
                       [frame |-> phys \div PAGE_SIZE, flags |-> flags \cup {PAGE_PRESENT}]],
             m |-> pt.m]
        WithPD(pd) == WithPT(ManualLevel(pd.t, pd.m, pd.next, PD_INDEX(virt)))
        WithPDPT(pdpt) == WithPD(ManualLevel(pdpt.t, pdpt.m, pdpt.next, PDPT_INDEX(virt)))
    IN  WithPDPT(ManualLevel(T, M, pml4, PML4_INDEX(virt)))

\* The loops of process_create_user that map count pages from page i on; each
\* page is mapped (r) before the next iteration starts.
RECURSIVE ManualMapLoop(_, _, _, _, _, _, _)
ManualMapLoop(T, M, pml4, virt, phys, count, i) ==
    IF i >= count THEN [t |-> T, m |-> M]
    ELSE CHOOSE done \in
             {ManualMapLoop(r.t, r.m, pml4, virt, phys, count, i + 1) :
                 r \in {manual_map_page(T, M, pml4, virt + i * PAGE_SIZE,
                                        phys + i * PAGE_SIZE, PAGE_FLAGS_USER)}} : TRUE

vmm_create_address_space(T, M, cur_pml4) ==
    LET Created(a) ==
            IF a.ret = 0 THEN [t |-> T, m |-> M, ret |-> 0]
            ELSE [t |-> ((a.ret \div PAGE_SIZE) :>
                            [i \in 0..(VmmFan - 1) |->
                                IF i >= UpperHalf THEN T[cur_pml4][i] ELSE ZeroEntry])
                        @@ T,
                  m |-> a.m, ret |-> a.ret]
    IN  Created(pmm_alloc_page(M))

\* The frames vmm_destroy_address_space passes to pmm_free_page: the tables
\* reached through the lower half, and the top-level table.
DestroyFrames(T, pml4) ==
    LET Present(tb) == {i \in 0..(VmmFan - 1) : PAGE_PRESENT \in TableAt(T, tb)[i].flags}
        pdpts == {TableAt(T, pml4)[i].frame : i \in {x \in Present(pml4) : x < UpperHalf}}
        pds == UNION {{TableAt(T, a)[j].frame : j \in Present(a)} : a \in pdpts}
        pts == UNION {{TableAt(T, b)[k].frame : k \in Present(b)} : b \in pds}
    IN  pdpts \cup pds \cup pts \cup {pml4}

RECURSIVE FreeFrames(_, _)
FreeFrames(M, S) ==
    IF S = {} THEN M
    ELSE LET f == CHOOSE x \in S : TRUE
         IN  FreeFrames(pmm_free_page(M, f * PAGE_SIZE), S \ {f})

vmm_destroy_address_space(T, M, pml4_phys) ==
    FreeFrames(M, DestroyFrames(T, pml4_phys \div PAGE_SIZE))

\* process_create_user on heap H, page tables T and frame allocator M, with
\* pid the value of next_pid and full telling whether add_process finds no
\* free slot.  ret is NULL or the new pid; pid_used tells whether alloc_pid ran.
process_create_user(H, T, M, cur_pml4, pid, full) ==
    LET Failed(h, t, m, used) ==
            [h |-> h, t |-> t, m |-> m, ret |-> NULL, pid_used |-> used,
             kernel_stack |-> NULL]
        \* after both mapping loops: add_process
        Mapped(k, ks, us, as, mc) ==
            IF full
            THEN Failed(kfree(k.h, k.ret).h, mc.t,
                        pmm_free_pages(
                            pmm_free_pages(
                                vmm_destroy_address_space(mc.t, mc.m, as.ret),
                                ks.ret, STACK_PAGES),
                            us.ret, STACK_PAGES), TRUE)
            ELSE [h |-> k.h, t |-> mc.t, m |-> mc.m, ret |-> pid, pid_used |-> TRUE,
                  kernel_stack |-> ks.ret + STACK_PAGES * PAGE_SIZE]
        StackMapped(k, ks, us, as, uc, ms) ==
            Mapped(k, ks, us, as,
                   ManualMapLoop(ms.t, ms.m, as.ret \div PAGE_SIZE, UserCodeBase,
                                 uc.ret, STACK_PAGES, 0))
        WithCode(k, ks, us, as, uc) ==
            IF uc.ret = 0
            THEN Failed(kfree(k.h, k.ret).h, as.t,
                        pmm_free_pages(
                            pmm_free_pages(
                                vmm_destroy_address_space(as.t, as.m, as.ret),
                                ks.ret, STACK_PAGES),
                            us.ret, STACK_PAGES), TRUE)
            ELSE StackMapped(k, ks, us, as, uc,
                             ManualMapLoop(as.t, uc.m, as.ret \div PAGE_SIZE,
                                           UserStackBase, us.ret, STACK_PAGES, 0))
        WithSpace(k, ks, us, as) ==
            IF as.ret = 0
            THEN Failed(kfree(k.h, k.ret).h, k.t,
                        pmm_free_pages(pmm_free_pages(us.m, ks.ret, STACK_PAGES),
                                       us.ret, STACK_PAGES), TRUE)
            ELSE WithCode(k, ks, us, as, pmm_alloc_pages(as.m, STACK_PAGES))
        WithUserStack(k, ks, us) ==
            IF us.ret = 0
            THEN Failed(kfree(k.h, k.ret).h, k.t,
                        pmm_free_pages(ks.m, ks.ret, STACK_PAGES), TRUE)
            ELSE WithSpace(k, ks, us, vmm_create_address_space(k.t, us.m, cur_pml4))
        WithKernelStack(k, ks) ==
            IF ks.ret = 0
            THEN Failed(kfree(k.h, k.ret).h, k.t, k.m, TRUE)
            ELSE WithUserStack(k, ks, pmm_alloc_pages(ks.m, STACK_PAGES))
        WithProc(k) ==
            IF k.ret = NULL THEN Failed(k.h, k.t, k.m, FALSE)
            ELSE WithKernelStack(k, pmm_alloc_pages(k.m, STACK_PAGES))
    IN  WithProc(kzalloc(H, T, M, cur_pml4, PROC_SIZE))

\* ------------------------------------------------------------ kernel state
CurM == Pmm(page_bitmap, used_pages, total_pages)
CurQ == Sched(procs, ready_queue_head, ready_queue_tail, ready_count)
CurK == [q |-> CurQ, current |-> current_process, cpu |-> cpu]

SetM(M) ==
    /\ page_bitmap' = M.bitmap
    /\ used_pages' = M.used
    /\ total_pages' = M.total

SetK(K) ==
    /\ procs' = K.q.procs
    /\ ready_queue_head' = K.q.head
    /\ ready_queue_tail' = K.q.tail
    /\ ready_count' = K.q.count
    /\ current_process' = K.current
    /\ cpu' = K.cpu

\* ready_count is a uint32_t (a negative value is one wrapped below zero);
\* the model follows it a bounded way past zero.
CountInRange(c) == c \in (0 - MaxUnderflow)..MaxProcs

\* The code the CPU returns to can issue calls: the boot thread while it is
\* still in test_multitasking, or a task that is not parked in process_exit.
BootCalls == cpu = BOOT /\ bootpc = "tasks"
TaskCalls == cpu # BOOT /\ procs[cpu].pc = "body"
CanCall == BootCalls \/ TaskCalls

InTable(p) == procs[p].state # NONE
Linked(p) == ready_queue_head = p \/ procs[p].prev # NULL \/ procs[p].next # NULL

\* The frames of a task's kernel stack (the direct map is taken as identity).
StackFrames(p) ==
    IF procs[p].kernel_stack = NULL THEN {}
    ELSE LET top == procs[p].kernel_stack \div PAGE_SIZE
         IN  (top - STACK_PAGES)..(top - 1)

\* isr_common_handler for the timer vector: a registered handler is called,
\* an unregistered vector >= 32 is only logged.
isr_common_handler(K, ticks) ==
    IF interrupt_handlers[TimerVector] = "scheduler_schedule"
    THEN [k |-> scheduler_schedule(K, scheduler_running, ticks), ticks |-> ticks]
    ELSE IF interrupt_handlers[TimerVector] = "timer_handler"
    THEN [k |-> K, ticks |-> timer_handler(ticks)]
    ELSE [k |-> K, ticks |-> ticks]

\* What `int $0x20` / IRQ0 does to the kernel state K.
Interrupt32(K) ==
    LET r == isr_common_handler(K, timer_ticks)
    IN  /\ SetK(r.k)
        /\ timer_ticks' = r.ticks
        /\ CountInRange(r.k.q.count)

\* The task scheduler_pick_next returns on a timer vector entry (NULL: none).
Picked ==
    IF interrupt_handlers[TimerVector] = "scheduler_schedule" /\ scheduler_running
    THEN scheduler_pick_next(CurQ, timer_ticks).next
    ELSE NULL

CurH == Heap(heap_mem, first_block, heap_end, heap_size, allocation_count)

SetH(H) ==
    /\ heap_mem' = H.mem
    /\ first_block' = H.first
    /\ heap_end' = H.hend
    /\ heap_size' = H.hsize
    /\ allocation_count' = H.count

\* Nothing has been printed by an operation yet.
NOMAP == [frame |-> NOPAGE, flags |-> {}]
VmmVirtPages == 0..(VmmFan * VmmFan * VmmFan * VmmFan - 1)
BootPml4 == 1          \* the boot top-level table lies in the kernel image

\* syscall_table is a zeroed static; no trap has been taken.
SYSCALL_COUNT == 16
NoFrame == [int_no |-> 0, rax |-> 0, rdi |-> 0]

\* ------------------------------------------------ simplefs.c and vfs.c
BLOCK_SIZE == 512
SIMPLEFS_TYPE_FILE == 1
SIMPLEFS_TYPE_DIR == 2
SIMPLEFS_MAX_FILE_BLOCKS == 12
SIMPLEFS_MAX_INODES == 256
SIMPLEFS_INODE_BLOCKS == 2
DIRENTRY_SIZE == 64           \* sizeof(simplefs_direntry_t)
FILE_TYPE_DIRECTORY == 2
FINDDIR_LIMIT == 100
MaxOpenFiles == 3             \* MAX_OPEN_FILES, 32 in vfs.h
MaxMounts == 2                \* MAX_MOUNTS, 8 in vfs.h

\* An inode, a directory entry, and a VFS node.  A node's fs_data pointer is
\* has_data (non-NULL) and data (the inode it points to); valid = FALSE is the
\* NULL node pointer.  Names and paths are sequences of characters.
ZeroInode ==
    [type |-> 0, size |-> 0, direct |-> [i \in 0..(SIMPLEFS_MAX_FILE_BLOCKS - 1) |-> 0]]
ZeroEntry64 == [inode |-> 0, name |-> <<>>, type |-> 0]
NullNode ==
    [valid |-> FALSE, name |-> <<>>, inode |-> 0, type |-> 0, size |-> 0,
     has_data |-> FALSE, data |-> ZeroInode]

\* The image simplefs_format leaves: inode 0 is the root directory with one
\* zeroed data block, the first one after the inode table.
FirstDataBlock == 1 + SIMPLEFS_INODE_BLOCKS
FormattedDisk ==
    [inodes |-> (0 :> [ZeroInode EXCEPT !.type = SIMPLEFS_TYPE_DIR,
                                        !.direct[0] = FirstDataBlock]),
     dirs |-> (FirstDataBlock :> <<>>)]

\* simplefs_read_inode: the inode table is zeroed where nothing was written.
simplefs_read_inode(D, inode_num) ==
    IF inode_num \in DOMAIN D.inodes THEN D.inodes[inode_num] ELSE ZeroInode

\* The body of the read loop of simplefs_vfs_read: the bytes copied.
RECURSIVE ReadLoop(_, _, _, _)
ReadLoop(inode, offset, to_read, bytes_read) ==
    IF bytes_read >= to_read
    THEN bytes_read
    ELSE LET Copy(block_index, remaining) ==
                 IF block_index >= SIMPLEFS_MAX_FILE_BLOCKS
                 THEN bytes_read
                 ELSE IF inode.direct[block_index] = 0
                 THEN bytes_read
                 ELSE ReadLoop(inode, offset, to_read,
                               bytes_read + (IF to_read - bytes_read < remaining
                                             THEN to_read - bytes_read
                                             ELSE remaining))
         IN  Copy((offset + bytes_read) \div BLOCK_SIZE,
                  BLOCK_SIZE - ((offset + bytes_read) % BLOCK_SIZE))

\* simplefs_vfs_read with a non-NULL buffer and a device that reads every block.
simplefs_vfs_read(node, offset, size) ==
    IF ~node.valid
    THEN -1
    ELSE IF ~node.has_data \/ node.data.type # SIMPLEFS_TYPE_FILE
    THEN -1
    ELSE IF offset >= node.data.size
    THEN 0
    ELSE ReadLoop(node.data, offset,
                  IF offset + size > node.data.size
                  THEN node.data.size - offset ELSE size, 0)

simplefs_vfs_write(node, offset, size) == -1

\* simplefs_vfs_readdir: the node built for entry index of the directory, or
\* NULL.  The child's fs_data stays as memset left it.
simplefs_vfs_readdir(D, node, index) ==
    LET Child(entry) ==
            IF entry.inode = 0
            THEN NullNode
            ELSE [valid |-> TRUE, name |-> entry.name, inode |-> entry.inode,
                  type |-> entry.type,
                  size |-> IF entry.inode < SIMPLEFS_MAX_INODES
                           THEN simplefs_read_inode(D, entry.inode).size ELSE 0,
                  has_data |-> FALSE, data |-> ZeroInode]
        Entry(entries) ==
            IF index + 1 \in DOMAIN entries THEN entries[index + 1] ELSE ZeroEntry64
    IN  IF ~node.valid
        THEN NullNode
        ELSE IF ~node.has_data \/ node.data.type # SIMPLEFS_TYPE_DIR
        THEN NullNode
        ELSE IF node.data.direct[0] = 0
        THEN NullNode
        ELSE IF index >= BLOCK_SIZE \div DIRENTRY_SIZE
        THEN NullNode
        ELSE Child(Entry(D.dirs[node.data.direct[0]]))

\* simplefs_vfs_finddir: entries 0, 1, ... up to the first that is NULL.
RECURSIVE FindDirFrom(_, _, _, _)
FindDirFrom(D, node, name, i) ==
    LET Found(child) ==
            IF ~child.valid
            THEN NullNode
            ELSE IF child.name = name
            THEN child
            ELSE FindDirFrom(D, node, name, i + 1)
    IN  IF i >= FINDDIR_LIMIT THEN NullNode
        ELSE Found(simplefs_vfs_readdir(D, node, i))

simplefs_vfs_finddir(D, node, name) == FindDirFrom(D, node, name, 0)

\* simplefs_fs_get_root: the root node, with inode 0 as its fs_data.
simplefs_fs_get_root(D) ==
    [valid |-> TRUE, name |-> <<"/">>, inode |-> 0, type |-> FILE_TYPE_DIRECTORY,
     size |-> simplefs_read_inode(D, 0).size,
     has_data |-> TRUE, data |-> simplefs_read_inode(D, 0)]

\* The characters of s before its first '/'.
RECURSIVE Component(_)
Component(s) ==
    IF s = <<>> \/ Head(s) = "/" THEN <<>> ELSE <<Head(s)>> \o Component(Tail(s))

\* The loop of vfs_resolve_path over the rest of the path, from token on.
RECURSIVE ResolveFrom(_, _, _)
ResolveFrom(D, current, token) ==
    LET Step(name, found) ==
            IF ~found.valid
            THEN NullNode
            ELSE ResolveFrom(D, found,
                             IF Len(name) < Len(token)
                             THEN SubSeq(token, Len(name) + 2, Len(token))
                             ELSE <<>>)
        Look(name) == Step(name, simplefs_vfs_finddir(D, current, name))
    IN  IF token = <<>> THEN current ELSE Look(Component(token))

\* (ResolveToRoot: a resolver that gives the root for a path it cannot find.)
ResolveToRoot(root, D, path) ==
    IF path = <<>> \/ Head(path) # "/" THEN NullNode ELSE root

vfs_resolve_path(root, D, path) ==
    IF path = <<>> \/ Head(path) # "/"
    THEN NullNode
    ELSE IF path = <<"/">>
    THEN root
    ELSE IF ~root.valid
    THEN NullNode
    ELSE ResolveFrom(D, root, Tail(path))

\* The descriptor table: MaxOpenFiles slots.
FreeFd == [node |-> NullNode, offset |-> 0, in_use |-> FALSE]
FdSlots == 0..(MaxOpenFiles - 1)

\* (AllocFirstSlot: an allocation that takes slot 0 whether or not it is in use.)
AllocFirstSlot(fds, node) ==
    [fds |-> [fds EXCEPT ![0] = [node |-> node, offset |-> 0, in_use |-> TRUE]],
     ret |-> 0]

\* vfs_alloc_fd: the table and the descriptor, -1 when every slot is in use.
vfs_alloc_fd(fds, node) ==
    IF \A i \in FdSlots : fds[i].in_use
    THEN [fds |-> fds, ret |-> -1]
    ELSE LET i == CHOOSE j \in FdSlots :
                     ~fds[j].in_use /\ \A k \in FdSlots : k < j => fds[k].in_use
         IN  [fds |-> [fds EXCEPT ![i] = [node |-> node, offset |-> 0, in_use |-> TRUE]],
              ret |-> i]

vfs_get_fd(fds, fd) == fd >= 0 /\ fd < MaxOpenFiles /\ fds[fd].in_use

\* vfs_open; simplefs_vfs_open returns 0.
vfs_open(root, D, fds, path) ==
    LET Opened(node) ==
            IF ~node.valid THEN [fds |-> fds, ret |-> -1] ELSE vfs_alloc_fd(fds, node)
    IN  Opened(vfs_resolve_path(root, D, path))

vfs_close(fds, fd) ==
    IF ~vfs_get_fd(fds, fd)
    THEN [fds |-> fds, ret |-> -1]
    ELSE [fds |-> [fds EXCEPT ![fd] = FreeFd], ret |-> 0]

\* (AlwaysAdvance: a read or write that adds the result to the offset even when
\* it is -1.)
AlwaysAdvance(fds, fd, bytes) ==
    [fds |-> [fds EXCEPT ![fd].offset = @ + bytes], ret |-> bytes]

\* The tail of vfs_read and vfs_write: the offset moves when bytes > 0.
Transfer(fds, fd, bytes) ==
    [fds |-> IF bytes > 0 THEN [fds EXCEPT ![fd].offset = @ + bytes] ELSE fds,
     ret |-> bytes]

vfs_read(fds, fd, size) ==
    IF ~vfs_get_fd(fds, fd)
    THEN [fds |-> fds, ret |-> -1]
    ELSE IF ~fds[fd].node.valid
    THEN [fds |-> fds, ret |-> -1]
    ELSE Transfer(fds, fd, simplefs_vfs_read(fds[fd].node, fds[fd].offset, size))

vfs_write(fds, fd, size) ==
    IF ~vfs_get_fd(fds, fd)
    THEN [fds |-> fds, ret |-> -1]
    ELSE IF ~fds[fd].node.valid
    THEN [fds |-> fds, ret |-> -1]
    ELSE Transfer(fds, fd, simplefs_vfs_write(fds[fd].node, fds[fd].offset, size))

\* The mount table: MaxMounts slots.
NoMount == [in_use |-> FALSE, path |-> <<>>, root |-> NullNode]
MountSlots == 0..(MaxMounts - 1)

\* vfs_mount(path, fs), where node is what fs->get_root returns: the mount
\* table, the global root and the value returned.
vfs_mount(ms, root, path, node) ==
    IF \A i \in MountSlots : ms[i].in_use
    THEN [mounts |-> ms, root |-> root, ret |-> -1]
    ELSE IF ~node.valid
    THEN [mounts |-> ms, root |-> root, ret |-> -1]
    ELSE LET slot == CHOOSE j \in MountSlots :
                        ~ms[j].in_use /\ \A k \in MountSlots : k < j => ms[k].in_use
         IN  [mounts |-> [ms EXCEPT ![slot] = [in_use |-> TRUE, path |-> path,
                                                root |-> node]],
              root |-> IF path = <<"/">> THEN node ELSE root,
              ret |-> 0]

\* vfs_unmount(path): the first slot in use with that path is released; the
\* function writes nothing but the mount table.
vfs_unmount(ms, path) ==
    LET hits == {i \in MountSlots : ms[i].in_use /\ ms[i].path = path}
    IN  IF hits = {}
        THEN [mounts |-> ms, ret |-> -1]
        ELSE LET i == CHOOSE j \in hits : \A k \in hits : j <= k
             IN  [mounts |-> [ms EXCEPT ![i].in_use = FALSE, ![i].root = NullNode],
                  ret |-> 0]

NoFsCall == [op |-> "none", path |-> <<>>, fd |-> -1, size |-> 0, ret |-> 0]

\* vfs_init, with no device attached yet.
FsInit ==
    /\ disk = FormattedDisk
    /\ vfs_root = NullNode
    /\ file_descriptors = [i \in FdSlots |-> FreeFd]
    /\ mounts = [i \in MountSlots |-> NoMount]
    /\ fs_call = NoFsCall

TrapInit ==
    /\ syscall_table = [n \in 0..(SYSCALL_COUNT - 1) |-> "NULL"]
    /\ regs = NoFrame
    /\ frame_in = NoFrame
    /\ pic_eoi = <<>>
    /\ invoked = <<>>
    /\ halted = FALSE

\* ---------------------------------------------------------------- block.c
DevNumBlocks == 3             \* blocks of the device

\* blocks_needed of block_read and block_write.
BlocksNeeded(offset, size) ==
    ((offset % BLOCK_SIZE) + size + BLOCK_SIZE - 1) \div BLOCK_SIZE

\* What dev->read_blocks or dev->write_blocks can do with count blocks: move
\* them all and return 0, or fail after moving fewer.
DevOutcomes(count) ==
    {[result |-> 0, moved |-> count]}
    \cup {[result |-> -1, moved |-> k] : k \in 0..(count - 1)}

\* block_read on a device of block size BLOCK_SIZE, where r is the outcome of
\* dev->read_blocks: the value returned and the blocks put in the buffer.
block_read(offset, size, r) ==
    IF offset % BLOCK_SIZE # 0
    THEN [ret |-> -1, moved |-> 0]
    ELSE IF r.result # 0
    THEN [ret |-> -1, moved |-> r.moved]
    ELSE [ret |-> size, moved |-> r.moved]

\* block_write, where r is the outcome of dev->write_blocks.
block_write(offset, size, r) ==
    IF offset % BLOCK_SIZE # 0 \/ size % BLOCK_SIZE # 0
    THEN [ret |-> -1, moved |-> 0]
    ELSE IF r.result # 0
    THEN [ret |-> -1, moved |-> r.moved]
    ELSE [ret |-> size, moved |-> r.moved]

NoBlkCall == [op |-> "none", offset |-> 0, size |-> 0, ret |-> 0, moved |-> 0]

BlkInit ==
    /\ dev_blocks = [b \in 0..(DevNumBlocks - 1) |-> FALSE]
    /\ blk_call = NoBlkCall

\* No task is inside scheduler_block.
NoOp == [owner |-> NULL, K |-> [q |-> Sched(<<>>, NULL, NULL, 0), current |-> NULL,
                                cpu |-> BOOT]]

AtomInit ==
    /\ op_pre = NoOp
    /\ op_log = <<>>

PreTasks == 1..2

PreInit ==
    /\ pre_task = 1
    /\ pre_local = [t \in PreTasks |-> [pc |-> "idle", page |-> NOPAGE, owned |-> {}]]

\* ------------------------------------------------- saved register frames
\* registers_t (isr.h) and cpu_context_t (process.h) as functions from field
\* names to values.  int_no and err_code are not registers and are left out.
GprFields == {"rax", "rbx", "rcx", "rdx", "rsi", "rdi", "rbp",
              "r8", "r9", "r10", "r11", "r12", "r13", "r14", "r15"}
SegFields == {"ds", "es", "fs", "gs"}
FrameFields == GprFields \cup {"rsp", "rip", "rflags", "cs", "ss"} \cup SegFields

KERNEL_CS == 8
KERNEL_DS == 16
USER_CS == 27
USER_DS == 35
RFLAGS_IF == 514

ZeroContext == [f \in FrameFields |-> 0]

\* Field by field, what scheduler_schedule copies from *regs to
\* current->context.
SaveContext(ctx, frame) ==
    [ctx EXCEPT !["rax"] = frame["rax"], !["rbx"] = frame["rbx"], !["rcx"] = frame["rcx"],
                !["rdx"] = frame["rdx"], !["rsi"] = frame["rsi"], !["rdi"] = frame["rdi"],
                !["rbp"] = frame["rbp"], !["rsp"] = frame["rsp"], !["r8"] = frame["r8"],
                !["r9"] = frame["r9"], !["r10"] = frame["r10"], !["r11"] = frame["r11"],
                !["r12"] = frame["r12"], !["r13"] = frame["r13"], !["r14"] = frame["r14"],
                !["r15"] = frame["r15"], !["rip"] = frame["rip"],
                !["rflags"] = frame["rflags"], !["cs"] = frame["cs"], !["ss"] = frame["ss"]]

\* Field by field, what scheduler_schedule copies from next->context to *regs.
RestoreFrame(frame, ctx) ==
    [frame EXCEPT !["rax"] = ctx["rax"], !["rbx"] = ctx["rbx"], !["rcx"] = ctx["rcx"],
                 !["rdx"] = ctx["rdx"], !["rsi"] = ctx["rsi"], !["rdi"] = ctx["rdi"],
                 !["rbp"] = ctx["rbp"], !["rsp"] = ctx["rsp"], !["r8"] = ctx["r8"],
                 !["r9"] = ctx["r9"], !["r10"] = ctx["r10"], !["r11"] = ctx["r11"],
                 !["r12"] = ctx["r12"], !["r13"] = ctx["r13"], !["r14"] = ctx["r14"],
                 !["r15"] = ctx["r15"], !["rip"] = ctx["rip"],
                 !["rflags"] = ctx["rflags"], !["cs"] = ctx["cs"], !["ss"] = ctx["ss"]]

\* The frame part of scheduler_schedule when it switches from cur (or no task)
\* to nx: the result is [context, regs].
SwitchFrames(ctx, frame, cur, nx) ==
    LET saved == IF cur # NULL
                 THEN [ctx EXCEPT ![cur] = SaveContext(ctx[cur], frame)]
                 ELSE ctx
    IN  [context |-> saved, regs |-> RestoreFrame(frame, saved[nx])]

\* The initial context process_create_kernel_task builds.
KernelContext(entry, kernel_stack) ==
    [ZeroContext EXCEPT !["rip"] = entry, !["rsp"] = kernel_stack,
                        !["rflags"] = RFLAGS_IF, !["cs"] = KERNEL_CS,
                        !["ss"] = KERNEL_DS]

\* The initial context process_create_user builds.
UserContext ==
    [ZeroContext EXCEPT !["rip"] = UserCodeBase,
                        !["rsp"] = UserStackBase + STACK_PAGES * PAGE_SIZE,
                        !["rflags"] = RFLAGS_IF, !["cs"] = USER_CS, !["ss"] = USER_DS,
                        !["ds"] = USER_DS, !["es"] = USER_DS, !["fs"] = USER_DS,
                        !["gs"] = USER_DS]

\* The selectors gdt_init leaves in the CPU; the other registers of the boot
\* thread are taken as zero.
BootRegs ==
    [ZeroContext EXCEPT !["cs"] = KERNEL_CS, !["ss"] = KERNEL_DS,
                        !["ds"] = KERNEL_DS, !["es"] = KERNEL_DS,
                        !["fs"] = KERNEL_DS, !["gs"] = KERNEL_DS]

\* The top of interrupt_stack, a static array of the kernel image.
InterruptStackTop == PAGE_SIZE * (1 + KernelPages)

\* tss_init, called by gdt_init: rsp0 is the top of interrupt_stack.
tss_init == [rsp0 |-> InterruptStackTop]

SwInit ==
    /\ context = [p \in Procs |-> ZeroContext]
    /\ cpu_regs = BootRegs
    /\ kernel_tss = tss_init

LateInit == TrapInit /\ FsInit /\ BlkInit /\ AtomInit /\ PreInit /\ SwInit

ExtInit ==
    /\ vga = ""
    /\ page_tables = [f \in {BootPml4} |-> ZeroTable]
    /\ current_pml4 = BootPml4
    /\ vm_req = [v \in VmmVirtPages |-> NOMAP]
    /\ heap_mem = <<>>
    /\ first_block = NULL
    /\ heap_end = 0
    /\ heap_size = 0
    /\ allocation_count = 0
    /\ live = {}
    /\ freed = {}
    /\ LateInit

\* ------------------------------------------------------------------ boot
\* kernel_main / init_subsystems, in program order.
SchedPages == 1 + KernelPages + STACK_PAGES * MaxProcs

Init ==
    /\ bootpc = "timer_init"
    /\ interrupt_handlers = [v \in {TimerVector} |-> "NULL"]
    /\ interrupts_on = FALSE
    /\ timer_ticks = 0
    /\ timer_frequency = 0
    /\ next_pid = 1
    /\ current_process = NULL
    /\ procs = [p \in Procs |-> NoTask]
    /\ ready_queue_head = NULL
    /\ ready_queue_tail = NULL
    /\ ready_count = 0
    /\ scheduler_running = FALSE
    /\ cpu = BOOT
    /\ LET M == pmm_init(SchedPages, 1, KernelPages)
       IN  /\ page_bitmap = M.bitmap
           /\ used_pages = M.used
           /\ total_pages = M.total
    /\ picks = <<>>
    /\ sleep_call = [p \in Procs |-> [ms |-> 0, before |-> 0]]
    /\ held = {}
    /\ last_alloc = [gen |-> 0, frames |-> {}]
    /\ ExtInit

timer_init ==
    /\ bootpc = "timer_init"
    /\ interrupt_handlers' = [interrupt_handlers EXCEPT ![TimerVector] = "timer_handler"]
    /\ timer_frequency' = TIMER_HZ
    /\ bootpc' = "process_init"
    /\ UNCHANGED <<interrupts_on, timer_ticks, next_pid, current_process, procs,
                   ready_queue_head, ready_queue_tail, ready_count,
                   scheduler_running, cpu, pmmVars, histVars, extVars>>

process_init ==
    /\ bootpc = "process_init"
    /\ procs' = [p \in Procs |-> NoTask]
    /\ next_pid' = 1
    /\ current_process' = NULL
    /\ bootpc' = "scheduler_init"
    /\ UNCHANGED <<interrupt_handlers, interrupts_on, timer_ticks, timer_frequency,
                   ready_queue_head, ready_queue_tail, ready_count,
                   scheduler_running, cpu, pmmVars, histVars, extVars>>

scheduler_init ==
    /\ bootpc = "scheduler_init"
    /\ scheduler_running' = FALSE
    /\ ready_queue_head' = NULL
    /\ ready_queue_tail' = NULL
    /\ ready_count' = 0
    /\ interrupt_handlers' = [interrupt_handlers EXCEPT ![TimerVector] = "scheduler_schedule"]
    /\ bootpc' = "tasks"
    /\ UNCHANGED <<interrupts_on, timer_ticks, timer_frequency, next_pid,
                   current_process, procs, cpu, pmmVars, histVars, extVars>>

\* scheduler_start followed by interrupts_enable; the boot thread then idles.
scheduler_start ==
    /\ BootCalls
    /\ scheduler_running' = TRUE
    /\ interrupts_on' = TRUE
    /\ bootpc' = "idle"
    /\ UNCHANGED <<interrupt_handlers, timer_ticks, timer_frequency, next_pid,
                   current_process, procs, ready_queue_head, ready_queue_tail,
                   ready_count, cpu, pmmVars, histVars, extVars>>

\* ------------------------------------------------------------ operations
\* process_create_kernel_task: the pid is taken before the stack is allocated.
CreateKernelTask(limit, prio) ==
    /\ CanCall
    /\ next_pid <= limit
    /\ find_free_pages(CurM, STACK_PAGES) # OOB
    /\ LET r == pmm_alloc_pages(CurM, STACK_PAGES)
       IN  /\ next_pid' = next_pid + 1
           /\ IF r.ret = 0
              THEN UNCHANGED <<procs, pmmVars>>
              ELSE /\ procs' = [procs EXCEPT ![next_pid] =
                                  Task(READY, prio, r.ret + STACK_PAGES * PAGE_SIZE)]
                   /\ SetM(r.m)
    /\ UNCHANGED <<bootpc, interrupt_handlers, interrupts_on, timer_ticks,
                   timer_frequency, current_process, ready_queue_head,
                   ready_queue_tail, ready_count, scheduler_running, cpu>>

\* scheduler_add_process, called as main.c does: on a task not yet queued.
SchedulerAdd(p) ==
    /\ CanCall
    /\ procs[p].state = READY
    /\ ~Linked(p)
    /\ SetK([CurK EXCEPT !.q = scheduler_add_process(CurQ, p)])
    /\ CountInRange(ready_count')
    /\ UNCHANGED <<bootpc, interrupt_handlers, interrupts_on, timer_ticks,
                   timer_frequency, next_pid, scheduler_running, pmmVars>>

\* IRQ0: the hardware timer, delivered while interrupts are enabled.
TimerIrq ==
    /\ interrupts_on
    /\ Interrupt32(CurK)
    /\ UNCHANGED <<bootpc, interrupt_handlers, interrupts_on, timer_frequency,
                   next_pid, scheduler_running, pmmVars>>

\* scheduler_yield: `int $32` from the running code.
SchedulerYield ==
    /\ TaskCalls
    /\ Interrupt32(CurK)
    /\ UNCHANGED <<bootpc, interrupt_handlers, interrupts_on, timer_frequency,
                   next_pid, scheduler_running, pmmVars>>

\* process_sleep(ticks) by the running task.
SleepStep(ticks) ==
    /\ TaskCalls
    /\ current_process # NULL
    /\ LET c == current_process
           ps == [procs EXCEPT ![c].sleep_until = timer_get_ticks + ticks,
                               ![c].state = SLEEPING]
       IN  Interrupt32([CurK EXCEPT !.q.procs = ps])
    /\ UNCHANGED <<bootpc, interrupt_handlers, interrupts_on, timer_frequency,
                   next_pid, scheduler_running, pmmVars>>

\* scheduler_block by the running task.
SchedulerBlock ==
    /\ TaskCalls
    /\ current_process # NULL
    /\ LET c == current_process
           Q == [CurQ EXCEPT !.procs[c].state = BLOCKED]
       IN  Interrupt32([CurK EXCEPT !.q = scheduler_remove_process(Q, c)])
    /\ UNCHANGED <<bootpc, interrupt_handlers, interrupts_on, timer_frequency,
                   next_pid, scheduler_running, pmmVars>>

\* scheduler_unblock(p), from running code or from an interrupt handler.
SchedulerUnblock(p) ==
    /\ CanCall \/ interrupts_on
    /\ procs[p].state = BLOCKED
    /\ SetK([CurK EXCEPT !.q = scheduler_add_process(CurQ, p)])
    /\ CountInRange(ready_count')
    /\ UNCHANGED <<bootpc, interrupt_handlers, interrupts_on, timer_ticks,
                   timer_frequency, next_pid, scheduler_running, pmmVars>>

\* process_exit by the running task; if the interrupt returns to it, it
\* stays in the hlt loop at the end of process_exit.
ProcessExit ==
    /\ TaskCalls
    /\ current_process # NULL
    /\ LET c == current_process
           ps == [procs EXCEPT ![c].state = ZOMBIE, ![c].pc = "exit_loop"]
       IN  Interrupt32([CurK EXCEPT !.q.procs = ps])
    /\ UNCHANGED <<bootpc, interrupt_handlers, interrupts_on, timer_frequency,
                   next_pid, scheduler_running, pmmVars>>

\* process_kill(pid) of a task in the table.
ProcessKill(p) ==
    /\ CanCall
    /\ InTable(p)
    /\ procs' = [procs EXCEPT ![p].state = DEAD]
    /\ UNCHANGED <<bootpc, interrupt_handlers, interrupts_on, timer_ticks,
                   timer_frequency, next_pid, current_process, ready_queue_head,
                   ready_queue_tail, ready_count, scheduler_running, cpu, pmmVars>>

\* ------------------------------------------- the general specification
SleepTicks == {0}         \* arguments of process_sleep
SleepMs == {0, 10}        \* arguments of sys_sleep
NoSleepCall == [ms |-> 0, before |-> 0]

process_create_kernel_task ==
    /\ CreateKernelTask(MaxTasks, 0)
    /\ UNCHANGED <<histVars, extVars>>

scheduler_add ==
    /\ \E p \in Procs : SchedulerAdd(p)
    /\ UNCHANGED <<histVars, extVars>>

timer_irq ==
    /\ TimerIrq
    /\ UNCHANGED <<histVars, extVars>>

scheduler_yield ==
    /\ SchedulerYield
    /\ UNCHANGED <<histVars, extVars>>

process_sleep ==
    /\ \E n \in SleepTicks : SleepStep(n)
    /\ UNCHANGED <<histVars, extVars>>

\* sys_sleep(ms): nothing for ms = 0, else process_sleep of (ms + 9) / 10
\* ticks.  ms is a uint64_t held as its signed representative (-1 is
\* 2^64 - 1); ms + 9 wraps, and the quotient is taken for sums below 2^63.
\* The caller's uptime_ms reading before the call is recorded.
SysSleep(ms) ==
    /\ TaskCalls
    /\ current_process # NULL
    /\ sleep_call' = [sleep_call EXCEPT ![current_process] =
                         [ms |-> ms, before |-> timer_get_uptime_ms]]
    /\ IF ms = 0
       THEN UNCHANGED <<schedVars, pmmVars>>
       ELSE SleepStep((ms + 9) \div 10)

sys_sleep ==
    /\ \E ms \in SleepMs : SysSleep(ms)
    /\ UNCHANGED <<picks, held, last_alloc, extVars>>

scheduler_block ==
    /\ SchedulerBlock
    /\ UNCHANGED <<histVars, extVars>>

scheduler_unblock ==
    /\ \E p \in Procs : SchedulerUnblock(p)
    /\ UNCHANGED <<histVars, extVars>>

process_exit ==
    /\ ProcessExit
    /\ UNCHANGED <<histVars, extVars>>

process_kill ==
    /\ \E p \in Procs : ProcessKill(p)
    /\ UNCHANGED <<histVars, extVars>>

Next ==
    \/ timer_init
    \/ process_init
    \/ scheduler_init
    \/ scheduler_start
    \/ process_create_kernel_task
    \/ scheduler_add
    \/ timer_irq
    \/ scheduler_yield
    \/ process_sleep
    \/ sys_sleep
    \/ scheduler_block
    \/ scheduler_unblock
    \/ process_exit
    \/ process_kill

Spec == Init /\ [][Next]_vars

\* Model sanity: the running code is the current task, the queue ends agree.
TypeOK ==
    /\ cpu = current_process
    /\ (ready_queue_head = NULL) = (ready_queue_tail = NULL)
    /\ CountInRange(ready_count)

\* The general specification with the hardware timer ticking for as long as
\* a tick changes anything (a periodic timer at TIMER_HZ).
FairSpec == Spec /\ WF_vars(timer_irq)

\* ------------------------------------------------------------------ claims
\* One listed lifecycle transition of a task; wake says whether the tick
\* counter has reached the task's wake-at tick.
Listed(a, b, wake) ==
    \/ a = NONE /\ b = READY
    \/ a = READY /\ b = RUNNING
    \/ a = RUNNING /\ b \in {READY, SLEEPING, BLOCKED, ZOMBIE}
    \/ a = SLEEPING /\ b = READY /\ wake
    \/ a = BLOCKED /\ b = READY
    \/ a = ZOMBIE /\ b = DEAD

States == {NONE, READY, RUNNING, BLOCKED, SLEEPING, ZOMBIE, DEAD}

\* A handler runs to completion, so one step may take a task along a short
\* chain of listed transitions (sleep, wake, select: three).
ListedChain(a, b, wake) ==
    \/ a = b
    \/ Listed(a, b, wake)
    \/ \E c \in States : Listed(a, c, wake) /\ Listed(c, b, wake)
    \/ \E c, d \in States :
         Listed(a, c, wake) /\ Listed(c, d, wake) /\ Listed(d, b, wake)

\* C1: every change of a task's lifecycle state follows the listed
\* transitions (new->Ready, Ready->Running, Running->Ready/Sleeping/Blocked/
\* Zombie, Sleeping->Ready at the wake tick, Blocked->Ready, Zombie->Dead).
C1_ListedTransitionsOnly ==
    [][\A p \in Procs :
          ListedChain(procs[p].state, procs'[p].state,
                      timer_ticks' >= procs'[p].sleep_until)]_vars

\* C2: a task that slept does not run before the tick counter has reached
\* its wake-at tick, and a Sleeping task is never the one on the CPU.
C2_NoRunBeforeDeadline ==
    \A p \in Procs :
        cpu = p => /\ procs[p].state # SLEEPING
                   /\ timer_ticks >= procs[p].sleep_until

\* C3: a Blocked task is never the one the CPU is executing, whatever the
\* ready queue held when it blocked.
C3_BlockedNeverRuns ==
    \A p \in Procs : procs[p].state = BLOCKED => cpu # p

\* C4: after bring-up every timer interrupt adds exactly one to the tick
\* counter (and the counter never decreases).
C4_TickCountsInterrupts ==
    [][/\ timer_ticks' >= timer_ticks
       /\ (bootpc \in {"tasks", "idle"} /\ TimerIrq)
              => timer_ticks' = timer_ticks + 1]_vars

\* C7: when a task is running again after sleep_ms(10), uptime_ms is at
\* least the uptime_ms it read before the call plus 10.
C7_UptimeAfterSleep ==
    \A p \in Procs :
        (cpu = p /\ procs[p].pc = "body" /\ sleep_call[p].ms = 10)
            => timer_get_uptime_ms >= sleep_call[p].before + 10

\* C8: with timer ticks occurring, every Zombie task eventually is Dead.
C8_ZombieEventuallyDead ==
    \A p \in Procs : (procs[p].state = ZOMBIE) ~> (procs[p].state = DEAD)

\* C9: with timer ticks occurring, the kernel stack frames of a terminated
\* task (exited or killed) are eventually free in the frame allocator.
C9_StackEventuallyFreed ==
    \A p \in Procs :
        (procs[p].state \in {ZOMBIE, DEAD})
            ~> (StackFrames(p) \cap page_bitmap = {})

\* --------------------------------------- the round-robin specification
\* test_multitasking: the boot thread creates tasks (priority 0 for the
\* workers, 31 for the idle task), queues them and starts the scheduler;
\* from then on only the timer preempts.  picks records each selection.
Priorities == {0, 31}

rr_create_kernel_task ==
    /\ BootCalls
    /\ \E prio \in Priorities : CreateKernelTask(MaxProcs, prio)
    /\ UNCHANGED <<histVars, extVars>>

rr_scheduler_add ==
    /\ BootCalls
    /\ \E p \in Procs : SchedulerAdd(p)
    /\ UNCHANGED <<histVars, extVars>>

rr_timer_irq ==
    /\ Len(picks) < MaxRRTicks
    /\ Picked # NULL
    /\ picks' = Append(picks, Picked)
    /\ TimerIrq
    /\ UNCHANGED <<sleep_call, held, last_alloc, extVars>>

NextRR ==
    \/ timer_init
    \/ process_init
    \/ scheduler_init
    \/ rr_create_kernel_task
    \/ rr_scheduler_add
    \/ scheduler_start
    \/ rr_timer_irq

SpecRR == Init /\ [][NextRR]_vars

Queued == {p \in Procs : Linked(p)}

Count(seq, x) == Cardinality({i \in 1..Len(seq) : seq[i] = x})

\* C5: with N tasks of equal priority queued and only timer preemptions,
\* every N consecutive selections contain each queued task exactly once.
C5_RoundRobinWindow ==
    LET n == Cardinality(Queued)
    IN  (n > 0 /\ \A p, q \in Queued : procs[p].priority = procs[q].priority)
        => \A i \in 1..(Len(picks) - n + 1) :
              \A p \in Queued :
                 Cardinality({j \in i..(i + n - 1) : picks[j] = p}) = 1

C5_Witness ==
    /\ Cardinality(Queued) = 3
    /\ \A p, q \in Queued : procs[p].priority = procs[q].priority
    /\ Len(picks) = 7

\* C6: with T1, T2, T3 at equal priority and an idle task queued, twelve
\* ticks select each of T1, T2, T3 four times and never the idle task.
C6_IdleNeverSelected ==
    (/\ Queued = 1..4
     /\ \A p \in 1..3 : procs[p].priority = 0
     /\ procs[4].priority = 31
     /\ Len(picks) = 12)
        => /\ \A p \in 1..3 : Count(picks, p) = 4
           /\ Count(picks, 4) = 0

\* ------------------------------------------ the allocator specification
\* The frame allocator on its own, after pmm_init over PmmPages frames.
\* held is the set of frames handed out by an allocation and not freed
\* since; last_alloc is the latest allocation's result (gen flips on each).
InitPMM ==
    /\ bootpc = "timer_init"
    /\ interrupt_handlers = [v \in {TimerVector} |-> "NULL"]
    /\ interrupts_on = FALSE
    /\ timer_ticks = 0
    /\ timer_frequency = 0
    /\ next_pid = 1
    /\ current_process = NULL
    /\ procs = [p \in Procs |-> NoTask]
    /\ ready_queue_head = NULL
    /\ ready_queue_tail = NULL
    /\ ready_count = 0
    /\ scheduler_running = FALSE
    /\ cpu = BOOT
    /\ LET M == pmm_init(PmmPages, 1, KernelPages)
       IN  /\ page_bitmap = M.bitmap
           /\ used_pages = M.used
           /\ total_pages = M.total
    /\ picks = <<>>
    /\ sleep_call = [p \in Procs |-> NoSleepCall]
    /\ held = {}
    /\ last_alloc = [gen |-> 0, frames |-> {}]
    /\ ExtInit

PmmAddrs == {pg * PAGE_SIZE : pg \in 0..(PmmPages + 1)} \cup {2 * PAGE_SIZE + 8}
PmmCounts == 0..(PmmPages + 2)
FreeCounts == 0..3

\* The frames an allocation of count pages returning ret hands out.
Returned(ret, count) ==
    IF ret = 0 THEN {}
    ELSE (ret \div PAGE_SIZE)..((ret \div PAGE_SIZE) + count - 1)

Allocated(r, count) ==
    /\ SetM(r.m)
    /\ last_alloc' = [gen |-> 1 - last_alloc.gen, frames |-> Returned(r.ret, count)]
    /\ held' = held \cup Returned(r.ret, count)
    /\ vga' = ""
    /\ UNCHANGED <<schedVars, picks, sleep_call, vmmVars, heapVars, lateVars>>

Freed(M, msg) ==
    /\ SetM(M)
    /\ held' = held \ (page_bitmap \ M.bitmap)
    /\ vga' = msg
    /\ UNCHANGED <<schedVars, picks, sleep_call, last_alloc, vmmVars, heapVars, lateVars>>

alloc_one ==
    /\ bootpc = "timer_init"
    /\ Allocated(pmm_alloc_page(CurM), 1)

alloc_contiguous ==
    /\ bootpc = "timer_init"
    /\ \E count \in PmmCounts :
         /\ find_free_pages(CurM, count) # OOB
         /\ Allocated(pmm_alloc_pages(CurM, count), count)

FreeOne(addr) ==
    /\ bootpc = "timer_init"
    /\ Freed(pmm_free_page(CurM, addr),
             IF DoubleFree(CurM, addr) THEN WARN_DOUBLE_FREE ELSE "")

free_one == \E addr \in PmmAddrs : FreeOne(addr)

free_range ==
    /\ bootpc = "timer_init"
    /\ \E addr \in PmmAddrs, count \in FreeCounts :
         Freed(pmm_free_pages(CurM, addr, count),
               IF \E i \in 0..(count - 1) : DoubleFree(CurM, addr + i * PAGE_SIZE)
               THEN WARN_DOUBLE_FREE ELSE "")

mark_used ==
    /\ bootpc = "timer_init"
    /\ \E addr \in PmmAddrs : Freed(pmm_mark_used(CurM, addr), "")

NextPMM ==
    \/ alloc_one
    \/ alloc_contiguous
    \/ free_one
    \/ free_range
    \/ mark_used

SpecPMM == InitPMM /\ [][NextPMM]_vars

\* C10: an allocation never returns a frame that an earlier allocation
\* returned and that has not been freed since.
C10_NoDoubleAllocation ==
    [][last_alloc'.gen # last_alloc.gen
          => last_alloc'.frames \cap held = {}]_vars

\* A contiguous allocation has succeeded while other frames were held, with
\* a free frame left below the ones it returned.
C10_Witness ==
    /\ Cardinality(last_alloc.frames) >= 2
    /\ last_alloc.frames \subseteq held
    /\ held \ last_alloc.frames # {}
    /\ \E f \in 0..(total_pages - 1), g \in last_alloc.frames :
          f \notin page_bitmap /\ f < g

\* C11: pmm_free_page of a frame that is already free prints the double-free
\* warning and leaves the bitmap, used_pages and total_pages (hence the free
\* count) as they were.
C11_DoubleFreeFrameReported ==
    [][\A addr \in PmmAddrs :
          (/\ FreeOne(addr)
           /\ addr \div PAGE_SIZE \in 0..(total_pages - 1)
           /\ addr \div PAGE_SIZE \notin page_bitmap)
          => /\ vga' = WARN_DOUBLE_FREE
             /\ page_bitmap' = page_bitmap
             /\ used_pages' = used_pages
             /\ total_pages' = total_pages]_vars

\* The warning has been printed after an earlier allocation and free.
C11_Witness ==
    /\ vga = WARN_DOUBLE_FREE
    /\ held # {}
    /\ \E f \in 2..(total_pages - 1) : f \notin page_bitmap

\* pmm_get_free_pages: total_pages - used_pages in uint32_t arithmetic.
pmm_get_free_pages(M) == M.total - M.used

\* C12: after init and after every allocator call, used_pages is the number
\* of frames (0 .. total_pages-1) marked used in the bitmap, and used and
\* free are counts of frames that add up to total_pages.
C12_UsedPlusFreeIsTotal ==
    /\ used_pages = Cardinality(page_bitmap \cap (0..(total_pages - 1)))
    /\ pmm_get_free_pages(CurM) \in 0..total_pages
    /\ used_pages + pmm_get_free_pages(CurM) = total_pages

\* ----------------------------------------------- the paging specification
\* vmm_map_page / vmm_unmap_page on the boot address space, over VmmPages
\* frames of which frame 0 and the kernel image are in use.
BootState(mem_pages) ==
    /\ bootpc = "timer_init"
    /\ interrupt_handlers = [v \in {TimerVector} |-> "NULL"]
    /\ interrupts_on = FALSE
    /\ timer_ticks = 0
    /\ timer_frequency = 0
    /\ next_pid = 1
    /\ current_process = NULL
    /\ procs = [p \in Procs |-> NoTask]
    /\ ready_queue_head = NULL
    /\ ready_queue_tail = NULL
    /\ ready_count = 0
    /\ scheduler_running = FALSE
    /\ cpu = BOOT
    /\ LET M == pmm_init(mem_pages, 1, KernelPages)
       IN  /\ page_bitmap = M.bitmap
           /\ used_pages = M.used
           /\ total_pages = M.total
    /\ picks = <<>>
    /\ sleep_call = [p \in Procs |-> NoSleepCall]
    /\ held = {}
    /\ last_alloc = [gen |-> 0, frames |-> {}]
    /\ ExtInit

InitVMM == BootState(VmmPages)

VmmVirts == {v * PAGE_SIZE : v \in {0, 1, 2, 4, 8}} \cup {PAGE_SIZE + 8}
VmmPhys == {0, 3 * PAGE_SIZE, 3 * PAGE_SIZE + 8}
VmmFlags == {PAGE_FLAGS_KERNEL, PAGE_FLAGS_USER}

MapPage(virt, phys, flags) ==
    /\ bootpc = "timer_init"
    /\ LET r == vmm_map_page(page_tables, CurM, current_pml4, virt, phys, flags)
       IN  /\ page_tables' = r.t
           /\ SetM(r.m)
           /\ vm_req' = IF r.ret = 0
                        THEN [vm_req EXCEPT ![virt \div PAGE_SIZE] =
                                 [frame |-> phys \div PAGE_SIZE, flags |-> flags]]
                        ELSE vm_req
    /\ UNCHANGED <<schedVars, histVars, vga, current_pml4, heapVars, lateVars>>

UnmapPage(virt) ==
    /\ bootpc = "timer_init"
    /\ page_tables' = vmm_unmap_page(page_tables, current_pml4, virt)
    /\ vm_req' = [vm_req EXCEPT ![virt \div PAGE_SIZE] = NOMAP]
    /\ UNCHANGED <<schedVars, pmmVars, histVars, vga, current_pml4, heapVars, lateVars>>

vmm_map == \E virt \in VmmVirts, phys \in VmmPhys, flags \in VmmFlags :
               MapPage(virt, phys, flags)

vmm_unmap == \E virt \in VmmVirts : UnmapPage(virt)

NextVMM ==
    \/ vmm_map
    \/ vmm_unmap

SpecVMM == InitVMM /\ [][NextVMM]_vars

\* C13: a page whose latest successful vmm_map_page has not been followed by
\* a vmm_unmap_page translates to the frame it was mapped to and is reported
\* mapped; every other page is reported not mapped.
C13_MapThenTranslate ==
    \A v \in VmmVirtPages :
        IF vm_req[v] = NOMAP
        THEN ~vmm_is_mapped(page_tables, current_pml4, v * PAGE_SIZE)
        ELSE /\ vmm_get_physical(page_tables, current_pml4, v * PAGE_SIZE)
                  = vm_req[v].frame * PAGE_SIZE
             /\ vmm_is_mapped(page_tables, current_pml4, v * PAGE_SIZE)

\* The x86-64 rule: user mode reaches a page when every entry on its walk is
\* present with the user bit.
UserAccessible(T, pml4, virt) ==
    LET w == Walk(T, pml4, virt)
    IN  /\ Len(w) = 4
        /\ \A i \in 1..4 : {PAGE_PRESENT, PAGE_USER} \subseteq w[i].flags

\* C14: a mapped page is user-accessible exactly when its mapping was
\* requested with the user flag.
C14_UserIffUserFlag ==
    \A v \in VmmVirtPages :
        vm_req[v] # NOMAP =>
            (UserAccessible(page_tables, current_pml4, v * PAGE_SIZE)
                <=> PAGE_USER \in vm_req[v].flags)

\* C15: a vmm_map_page that returns -1 leaves the page tables and the
\* allocator's free count as they were.
C15_MapFailureAtomic ==
    [][\A virt \in VmmVirts, phys \in VmmPhys, flags \in VmmFlags :
          (/\ MapPage(virt, phys, flags)
           /\ vmm_map_page(page_tables, CurM, current_pml4, virt, phys, flags).ret = -1)
          => /\ page_tables' = page_tables
             /\ pmm_get_free_pages(CurM)' = pmm_get_free_pages(CurM)]_vars

\* -------------------------------------------------- the heap specification
\* heap_init, kmalloc and kfree over HeapPages frames; the heap grows through
\* pmm_alloc_page and vmm_map_page on the boot address space.
InitHeap == BootState(HeapPages)

KmallocSizes == {0, 1000, 3000}

\* The addresses of the blocks linked from block b on, in list order.
RECURSIVE ListFrom(_, _)
ListFrom(mem, b) == IF b = NULL THEN <<>> ELSE <<b>> \o ListFrom(mem, mem[b].next)

HeapInit ==
    /\ bootpc = "timer_init"
    /\ heap_end = 0
    /\ LET r == heap_init(page_tables, CurM, current_pml4, HeapStart,
                          HeapInitPages * PAGE_SIZE)
       IN  /\ SetH(r.h)
           /\ page_tables' = r.t
           /\ SetM(r.m)
           /\ vga' = r.msg
    /\ UNCHANGED <<schedVars, histVars, current_pml4, vm_req, live, freed, lateVars>>

Kmalloc(size) ==
    /\ bootpc = "timer_init"
    /\ heap_end # 0
    /\ Cardinality(DOMAIN heap_mem) < MaxHeaders
    /\ LET r == kmalloc(CurH, page_tables, CurM, current_pml4, size)
       IN  /\ SetH(r.h)
           /\ page_tables' = r.t
           /\ SetM(r.m)
           /\ vga' = r.msg
           /\ live' = (live \cup {r.ret}) \ {NULL}
           /\ freed' = freed \ {r.ret}
    /\ UNCHANGED <<schedVars, histVars, current_pml4, vm_req, lateVars>>

Kfree(ptr) ==
    /\ bootpc = "timer_init"
    /\ heap_end # 0
    /\ LET r == kfree(CurH, ptr)
       IN  /\ SetH(r.h)
           /\ vga' = r.msg
    /\ live' = live \ {ptr}
    /\ freed' = (freed \cup {ptr}) \ {NULL}
    /\ UNCHANGED <<schedVars, pmmVars, histVars, vmmVars, lateVars>>

heap_boot == HeapInit

heap_alloc == \E size \in KmallocSizes : Kmalloc(size)

heap_free == \E ptr \in live \cup freed \cup {NULL} : Kfree(ptr)

NextHeap ==
    \/ heap_boot
    \/ heap_alloc
    \/ heap_free

SpecHeap == InitHeap /\ [][NextHeap]_vars

\* C16: a kmalloc that returns NULL because heap_expand failed leaves the
\* block list, heap_end and heap_size, the page tables (the mapped heap
\* pages) and the allocator's free count as they were.
C16_AllocFailureAtomic ==
    [][\A size \in KmallocSizes \ {0} :
          (/\ Kmalloc(size)
           /\ kmalloc(CurH, page_tables, CurM, current_pml4, size).ret = NULL)
          => /\ heap_mem' = heap_mem
             /\ first_block' = first_block
             /\ heap_end' = heap_end
             /\ heap_size' = heap_size
             /\ page_tables' = page_tables
             /\ pmm_get_free_pages(CurM)' = pmm_get_free_pages(CurM)]_vars

\* C18: kfree of a pointer that was freed and has not been handed out again
\* prints an error and leaves the block headers, the block list, the used
\* size and allocation_count as they were.
C18_DoubleFreeDetected ==
    [][\A ptr \in freed :
          Kfree(ptr)
          => /\ vga' \in {ERR_DOUBLE_FREE, ERR_BAD_MAGIC}
             /\ heap_mem' = heap_mem
             /\ first_block' = first_block
             /\ heap_get_used_size(CurH)' = heap_get_used_size(CurH)
             /\ allocation_count' = allocation_count]_vars

\* A double free has been reported for a pointer whose header was merged
\* away by coalesce_blocks, while another block is in use.
C18_Witness ==
    /\ vga = ERR_DOUBLE_FREE
    /\ live # {}
    /\ \E p \in freed :
          \A i \in 1..Len(ListFrom(heap_mem, first_block)) :
              ListFrom(heap_mem, first_block)[i] # p - HDR_SIZE

\* --------------------------------------------- the user-task specification
\* test_multitasking creating kernel tasks and user tasks, after the heap has
\* been set up and earlier boot steps have taken some frames.
UserState(mem_pages) ==
    \E M0 \in {pmm_init(mem_pages, 1, KernelPages)} :
      \E r \in {heap_init([f \in {BootPml4} |-> ZeroTable], M0, BootPml4, HeapStart,
                          HeapInitPages * PAGE_SIZE)} :
        /\ bootpc = "tasks"
        /\ interrupt_handlers = [v \in {TimerVector} |-> "scheduler_schedule"]
        /\ interrupts_on = FALSE
        /\ timer_ticks = 0
        /\ timer_frequency = TIMER_HZ
        /\ next_pid = 1
        /\ current_process = NULL
        /\ procs = [p \in Procs |-> NoTask]
        /\ ready_queue_head = NULL
        /\ ready_queue_tail = NULL
        /\ ready_count = 0
        /\ scheduler_running = FALSE
        /\ cpu = BOOT
        /\ page_bitmap = r.m.bitmap
        /\ used_pages = r.m.used
        /\ total_pages = r.m.total
        /\ picks = <<>>
        /\ sleep_call = [p \in Procs |-> NoSleepCall]
        /\ held = {}
        /\ last_alloc = [gen |-> 0, frames |-> {}]
        /\ vga = ""
        /\ page_tables = r.t
        /\ current_pml4 = BootPml4
        /\ vm_req = [v \in VmmVirtPages |-> NOMAP]
        /\ heap_mem = r.h.mem
        /\ first_block = r.h.first
        /\ heap_end = r.h.hend
        /\ heap_size = r.h.hsize
        /\ allocation_count = r.h.count
        /\ live = {}
        /\ freed = {}
        /\ LateInit

InitUser == UserState(UserPages)

TableFull == \A p \in Procs : InTable(p)

CreateUser(prio) ==
    /\ BootCalls
    /\ next_pid <= MaxProcs + 1
    /\ TableFull \/ next_pid \in Procs
    /\ LET r == process_create_user(CurH, page_tables, CurM, current_pml4,
                                    next_pid, TableFull)
       IN  /\ SetH(r.h)
           /\ page_tables' = r.t
           /\ SetM(r.m)
           /\ next_pid' = IF r.pid_used THEN next_pid + 1 ELSE next_pid
           /\ procs' = IF r.ret = NULL THEN procs
                       ELSE [procs EXCEPT ![r.ret] = Task(READY, prio, r.kernel_stack)]
    /\ UNCHANGED <<bootpc, interrupt_handlers, interrupts_on, timer_ticks,
                   timer_frequency, current_process, ready_queue_head,
                   ready_queue_tail, ready_count, scheduler_running, cpu,
                   histVars, vga, current_pml4, vm_req, live, freed>>

user_create_user_task ==
    /\ CreateUser(0)
    /\ UNCHANGED lateVars

user_create_kernel_task ==
    /\ BootCalls
    /\ CreateKernelTask(MaxProcs, 0)
    /\ UNCHANGED <<histVars, extVars>>

user_take_frame ==
    /\ BootCalls
    /\ next_pid = 1
    /\ SetM(pmm_alloc_page(CurM).m)
    /\ UNCHANGED <<schedVars, histVars, extVars>>

NextUser ==
    \/ user_create_user_task
    \/ user_create_kernel_task
    \/ user_take_frame

SpecUser == InitUser /\ [][NextUser]_vars

\* C17: a process_create_user that returns NULL leaves the allocator's free
\* count, the heap's used size and allocation_count as they were.
C17_UserCreateFailureReleases ==
    [][(/\ CreateUser(0)
        /\ process_create_user(CurH, page_tables, CurM, current_pml4,
                               next_pid, TableFull).ret = NULL)
       => /\ pmm_get_free_pages(CurM)' = pmm_get_free_pages(CurM)
          /\ heap_get_used_size(CurH)' = heap_get_used_size(CurH)
          /\ allocation_count' = allocation_count]_vars

\* ------------------------------------------- syscall.c: the syscall table
SYS_EXIT == 0
SYS_WRITE == 1
SYS_READ == 2
SYS_OPEN == 3
SYS_CLOSE == 4
SYS_GETPID == 5
SYS_SLEEP == 6
SYS_YIELD == 7
SYS_FORK == 8
SYS_FREE == 12
SYS_TIME == 13
SYS_GETCHAR == 14
SYS_PUTCHAR == 15
SyscallVector == 128          \* 0x80
EXCEPTION_PAGE_FAULT == 14
IRQ_KEYBOARD == 1
KeyboardVector == IRQ_BASE + IRQ_KEYBOARD

\* The handlers syscall_init registers; every other slot stays NULL.
Registered ==
    (SYS_EXIT :> "sys_exit_handler") @@ (SYS_WRITE :> "sys_write_handler") @@
    (SYS_READ :> "sys_read_handler") @@ (SYS_OPEN :> "sys_open_handler") @@
    (SYS_CLOSE :> "sys_close_handler") @@ (SYS_GETPID :> "sys_getpid_handler") @@
    (SYS_SLEEP :> "sys_sleep_handler") @@ (SYS_YIELD :> "sys_yield_handler") @@
    (SYS_TIME :> "sys_time_handler") @@ (SYS_PUTCHAR :> "sys_putchar_handler") @@
    (SYS_GETCHAR :> "sys_getchar_handler")

\* The characters user code passes to sys_putchar.
CharOf == (65 :> "A") @@ (66 :> "B")

\* The handlers: [ret, out] is the value returned and the text printed.
sys_getpid == [ret |-> IF current_process # NULL THEN current_process ELSE 0, out |-> ""]
sys_time == [ret |-> timer_get_uptime_ms, out |-> ""]
sys_getchar == [ret |-> -1, out |-> ""]
sys_putchar(c) == [ret |-> 0, out |-> CharOf[c]]

\* The call table[num](regs), for the handlers that touch only the state above.
CallHandler(h, r) ==
    CASE h = "sys_getpid_handler" -> sys_getpid
      [] h = "sys_time_handler" -> sys_time
      [] h = "sys_getchar_handler" -> sys_getchar
      [] h = "sys_putchar_handler" -> sys_putchar(r.rdi)

\* (KeepRaxDispatcher: a dispatcher that returns without writing rax when the
\* number is out of range or unregistered.)
KeepRaxDispatcher(table, r) ==
    LET Called(h, res) ==
            [regs |-> [r EXCEPT !.rax = res.ret], called |-> <<h>>, out |-> res.out]
    IN  IF ~ULess(r.rax, SYSCALL_COUNT)
        THEN [regs |-> r, called |-> <<>>, out |-> ""]
        ELSE IF table[r.rax] = "NULL"
        THEN [regs |-> r, called |-> <<>>, out |-> ""]
        ELSE Called(table[r.rax], CallHandler(table[r.rax], r))

\* syscall_dispatcher on trap frame r: the frame it leaves, the handlers it
\* called and what they printed.  rax is a uint64_t, held like a uint32_t above.
syscall_dispatcher(table, r) ==
    LET Called(h, res) ==
            [regs |-> [r EXCEPT !.rax = res.ret], called |-> <<h>>, out |-> res.out]
    IN  IF ~ULess(r.rax, SYSCALL_COUNT)
        THEN [regs |-> [r EXCEPT !.rax = -1], called |-> <<>>, out |-> ""]
        ELSE IF table[r.rax] = "NULL"
        THEN [regs |-> [r EXCEPT !.rax = -1], called |-> <<>>, out |-> ""]
        ELSE Called(table[r.rax], CallHandler(table[r.rax], r))

\* ------------------------------------------------ isr.c: the common handler
MSG_HALTED == "System Halted."
MSG_UNHANDLED == "Unhandled interrupt"
MSG_SYSCALL_INIT == "  Syscall: Registered system calls"

\* (LogOnlyDefault: a default action that logs every vector and returns.)
LogOnlyDefault(int_no) == [halt |-> FALSE, msg |-> MSG_UNHANDLED]

\* What isr_common_handler does when no handler is registered for int_no.
DefaultAction(int_no) ==
    IF int_no < 32
    THEN [halt |-> TRUE, msg |-> MSG_HALTED]
    ELSE [halt |-> FALSE, msg |-> MSG_UNHANDLED]

\* --------------------------------------------------- the trap specification
\* Boot up to test_multitasking with two kernel tasks, and traps taken on the
\* way: page faults, the timer and keyboard interrupts, and int 0x80 with the
\* call numbers below (in range, reserved, and out of range; -1 is 2^64 - 1).
Vectors == {EXCEPTION_PAGE_FAULT, TimerVector, KeyboardVector, SyscallVector}
ExternalVectors == {TimerVector, KeyboardVector}
SyscallNums ==
    {-1, SYS_GETPID, SYS_TIME, SYS_GETCHAR, SYS_PUTCHAR, SYSCALL_COUNT,
     SYSCALL_COUNT + 1} \cup (SYS_FORK..SYS_FREE)
TrapFrames ==
    {[int_no |-> SyscallVector, rax |-> n, rdi |-> c] :
        n \in SyscallNums, c \in DOMAIN CharOf}
    \cup {[int_no |-> v, rax |-> 0, rdi |-> 0] : v \in Vectors \ {SyscallVector}}

InitTrap ==
    /\ bootpc = "timer_init"
    /\ interrupt_handlers = [v \in Vectors |-> "NULL"]
    /\ interrupts_on = FALSE
    /\ timer_ticks = 0
    /\ timer_frequency = 0
    /\ next_pid = 1
    /\ current_process = NULL
    /\ procs = [p \in Procs |-> NoTask]
    /\ ready_queue_head = NULL
    /\ ready_queue_tail = NULL
    /\ ready_count = 0
    /\ scheduler_running = FALSE
    /\ cpu = BOOT
    /\ \E M \in {pmm_init(SchedPages, 1, KernelPages)} :
          /\ page_bitmap = M.bitmap
          /\ used_pages = M.used
          /\ total_pages = M.total
    /\ picks = <<>>
    /\ sleep_call = [p \in Procs |-> NoSleepCall]
    /\ held = {}
    /\ last_alloc = [gen |-> 0, frames |-> {}]
    /\ ExtInit

\* syscall_init, called after scheduler_init.
SyscallInit ==
    /\ ~halted
    /\ bootpc = "tasks"
    /\ interrupt_handlers[SyscallVector] = "NULL"
    /\ syscall_table' = [n \in 0..(SYSCALL_COUNT - 1) |->
                            IF n \in DOMAIN Registered THEN Registered[n] ELSE "NULL"]
    /\ interrupt_handlers' = [interrupt_handlers EXCEPT ![SyscallVector] =
                                 "syscall_dispatcher"]
    /\ vga' = MSG_SYSCALL_INIT
    /\ UNCHANGED <<bootpc, interrupts_on, timer_ticks, timer_frequency, next_pid,
                   current_process, procs, ready_queue_head, ready_queue_tail,
                   ready_count, scheduler_running, cpu, pmmVars, histVars,
                   vmmVars, heapVars, regs, frame_in, pic_eoi, invoked,
                   halted, postVars>>

\* A trap with frame f: the entry stub, isr_common_handler, and the return.
Trap(f) ==
    /\ ~halted
    /\ f.int_no \in ExternalVectors => interrupts_on
    /\ frame_in' = f
    /\ \E h \in {interrupt_handlers[f.int_no]} :
          IF h = "syscall_dispatcher"
          THEN \E d \in {syscall_dispatcher(syscall_table, f)} :
                  /\ regs' = d.regs
                  /\ invoked' = <<h>> \o d.called
                  /\ vga' = d.out
                  /\ pic_eoi' = <<>>
                  /\ UNCHANGED <<schedVars, halted>>
          ELSE IF h = "scheduler_schedule"
          THEN \E k \in {scheduler_schedule(CurK, scheduler_running, timer_ticks)} :
                  /\ SetK(k)
                  /\ CountInRange(k.q.count)
                  /\ regs' = f
                  /\ invoked' = <<h>>
                  /\ vga' = ""
                  /\ pic_eoi' = <<>>
                  /\ UNCHANGED <<bootpc, interrupt_handlers, interrupts_on,
                                 timer_ticks, timer_frequency, next_pid,
                                 scheduler_running, halted>>
          ELSE IF h = "timer_handler"
          THEN /\ timer_ticks' = timer_handler(timer_ticks)
               /\ regs' = f
               /\ invoked' = <<h>>
               /\ vga' = ""
               /\ pic_eoi' = <<IRQ_TIMER>>
               /\ UNCHANGED <<bootpc, interrupt_handlers, interrupts_on,
                              timer_frequency, next_pid, current_process, procs,
                              ready_queue_head, ready_queue_tail, ready_count,
                              scheduler_running, cpu, halted>>
          ELSE /\ halted' = DefaultAction(f.int_no).halt
               /\ interrupts_on' = (interrupts_on /\ ~DefaultAction(f.int_no).halt)
               /\ vga' = DefaultAction(f.int_no).msg
               /\ regs' = f
               /\ invoked' = <<>>
               /\ pic_eoi' = <<>>
               /\ UNCHANGED <<bootpc, interrupt_handlers, timer_ticks,
                              timer_frequency, next_pid, current_process, procs,
                              ready_queue_head, ready_queue_tail, ready_count,
                              scheduler_running, cpu>>
    /\ UNCHANGED <<pmmVars, histVars, vmmVars, heapVars, syscall_table, postVars>>

trap_timer_init == ~halted /\ timer_init

trap_process_init == ~halted /\ process_init

trap_scheduler_init == ~halted /\ scheduler_init

trap_syscall_init == SyscallInit

trap_create_kernel_task ==
    /\ ~halted
    /\ BootCalls
    /\ interrupt_handlers[SyscallVector] # "NULL"
    /\ CreateKernelTask(MaxTasks, 0)
    /\ UNCHANGED <<histVars, extVars>>

trap_scheduler_add ==
    /\ ~halted
    /\ BootCalls
    /\ \E p \in Procs : SchedulerAdd(p)
    /\ UNCHANGED <<histVars, extVars>>

trap_scheduler_start ==
    /\ ~halted
    /\ interrupt_handlers[SyscallVector] # "NULL"
    /\ scheduler_start

trap_taken == \E f \in TrapFrames : Trap(f)

NextTrap ==
    \/ trap_timer_init
    \/ trap_process_init
    \/ trap_scheduler_init
    \/ trap_syscall_init
    \/ trap_create_kernel_task
    \/ trap_scheduler_add
    \/ trap_scheduler_start
    \/ trap_taken

SpecTrap == InitTrap /\ [][NextTrap]_vars

\* C19: when the dispatcher is entered with a call number that is at or
\* beyond SYSCALL_COUNT, or whose slot holds no handler, it leaves the frame
\* with rax = -1 and nothing else changed, calls no handler, prints nothing
\* and changes no other kernel state.
C19_UnregisteredSyscall ==
    [][\A f \in TrapFrames :
          (/\ Trap(f)
           /\ interrupt_handlers[f.int_no] = "syscall_dispatcher"
           /\ (~ULess(f.rax, SYSCALL_COUNT) \/ syscall_table[f.rax] = "NULL"))
          => /\ regs' = [f EXCEPT !.rax = -1]
             /\ invoked' = <<"syscall_dispatcher">>
             /\ vga' = ""
             /\ UNCHANGED <<schedVars, pmmVars, vmmVars, heapVars, syscall_table,
                            halted>>]_vars

\* A reserved number (fork .. free) has been dispatched after syscall_init.
C19_Witness ==
    /\ syscall_table[SYS_GETPID] = "sys_getpid_handler"
    /\ frame_in.int_no = SyscallVector
    /\ frame_in.rax \in SYS_FORK..SYS_FREE
    /\ regs.rax = -1
    /\ invoked = <<"syscall_dispatcher">>

\* C20: on a trap, a registered handler is called first and neither the halt
\* nor the log of the default action happens; with no handler, a vector below
\* 32 halts the system, after which no step is taken again, and a vector of
\* 32 or above is logged and the frame is returned as it came.
C20_TrapDispatch ==
    [][/\ ~halted
       /\ \A f \in TrapFrames :
             Trap(f) =>
                IF interrupt_handlers[f.int_no] # "NULL"
                THEN /\ Len(invoked') >= 1
                     /\ invoked'[1] = interrupt_handlers[f.int_no]
                     /\ ~halted'
                     /\ vga' \notin {MSG_HALTED, MSG_UNHANDLED}
                ELSE IF f.int_no < 32
                THEN /\ halted'
                     /\ invoked' = <<>>
                ELSE /\ ~halted'
                     /\ invoked' = <<>>
                     /\ vga' = MSG_UNHANDLED
                     /\ regs' = f]_vars

\* The system halted on a page fault while a task was on the CPU.
C20_Witness ==
    /\ halted
    /\ frame_in.int_no = EXCEPTION_PAGE_FAULT
    /\ cpu # BOOT

\* C21: a timer interrupt delivered once interrupts are enabled is passed to
\* pic_send_eoi before the trap returns, whether or not a task switch happens.
C21_TimerAcknowledged ==
    [][\A f \in TrapFrames :
          (Trap(f) /\ f.int_no = TimerVector /\ interrupts_on)
          => IRQ_TIMER \in {pic_eoi'[i] : i \in DOMAIN pic_eoi'}]_vars

\* ------------------------------------------------ the sleep specification
\* Boot with two kernel tasks, timer interrupts, and sys_sleep called
\* with arguments on both sides of a tick boundary and at the top of uint64_t.
SleepMsWide == {0, 1, 10, 11, -9, -1}

sleep_sys_sleep ==
    /\ \E ms \in SleepMsWide : SysSleep(ms)
    /\ UNCHANGED <<picks, held, last_alloc, extVars>>

NextSleep ==
    \/ timer_init
    \/ process_init
    \/ scheduler_init
    \/ scheduler_start
    \/ process_create_kernel_task
    \/ scheduler_add
    \/ timer_irq
    \/ sleep_sys_sleep

SpecSleep == Init /\ [][NextSleep]_vars

\* The ticks that ms milliseconds need at the configured frequency; for an
\* argument of 2^63 or more, a lower bound of it.
TicksFor(ms) ==
    IF ms >= 0 THEN (ms * timer_frequency + 999) \div 1000 ELSE 1

\* C22: sys_sleep(0) changes nothing of the caller or the scheduler; any other
\* argument sets the caller's wake-up time at least the ticks that ms needs at
\* the configured timer frequency after the current tick, and exactly that
\* many when ms + 9 does not wrap.
C22_SleepRoundsUp ==
    [][\A ms \in SleepMsWide :
          SysSleep(ms) =>
             IF ms = 0
             THEN UNCHANGED <<schedVars, pmmVars>>
             ELSE /\ procs'[current_process].sleep_until - timer_ticks >= TicksFor(ms)
                  /\ ms > 0 => procs'[current_process].sleep_until - timer_ticks
                                  = TicksFor(ms)]_vars

\* ------------------------------------------- the filesystem specification
\* A SimpleFS device is mounted at / and files are opened, read, written and
\* closed.  The device holds the image simplefs_format writes
\* (test_filesystem), or an image with a file /a of FileSize bytes and a
\* directory /d holding a file b, or an image whose inode 0 is itself a file.
FileSize == 600
FileDisk ==
    [inodes |-> (0 :> [ZeroInode EXCEPT !.type = SIMPLEFS_TYPE_DIR,
                                        !.direct[0] = FirstDataBlock])
             @@ (1 :> [ZeroInode EXCEPT !.type = SIMPLEFS_TYPE_FILE, !.size = FileSize,
                                        !.direct[0] = FirstDataBlock + 1,
                                        !.direct[1] = FirstDataBlock + 2])
             @@ (2 :> [ZeroInode EXCEPT !.type = SIMPLEFS_TYPE_DIR,
                                        !.direct[0] = FirstDataBlock + 3])
             @@ (3 :> [ZeroInode EXCEPT !.type = SIMPLEFS_TYPE_FILE, !.size = 1,
                                        !.direct[0] = FirstDataBlock + 4]),
     dirs |-> (FirstDataBlock :>
                  << [inode |-> 1, name |-> <<"a">>, type |-> SIMPLEFS_TYPE_FILE],
                     [inode |-> 2, name |-> <<"d">>, type |-> SIMPLEFS_TYPE_DIR] >>)
           @@ ((FirstDataBlock + 3) :>
                  << [inode |-> 3, name |-> <<"b">>, type |-> SIMPLEFS_TYPE_FILE] >>)]
RootFileDisk ==
    [inodes |-> (0 :> [ZeroInode EXCEPT !.type = SIMPLEFS_TYPE_FILE, !.size = FileSize,
                                        !.direct[0] = FirstDataBlock,
                                        !.direct[1] = FirstDataBlock + 1]),
     dirs |-> (FirstDataBlock :> <<>>)]
DiskImages == {FileDisk, RootFileDisk}
RootPath == <<"/">>
FsPaths ==
    {RootPath, <<"/", "a">>, <<"/", "b">>, <<"/", "a", "/">>, <<"/", "/">>,
     <<"/", "d", "/", "b">>, <<"a">>, <<>>}
FsFds == -1..MaxOpenFiles
FsSizes == {400, 1024}

FsStep ==
    /\ bootpc = "timer_init"
    /\ UNCHANGED <<schedVars, pmmVars, histVars, vga, vmmVars, heapVars, trapVars,
                   blkVars, atomVars, preVars, swVars>>

\* test_filesystem: simplefs_format, simplefs_create, vfs_mount("/").
MountFormatted ==
    /\ ~vfs_root.valid
    /\ disk' = FormattedDisk
    /\ \E r \in {vfs_mount(mounts, vfs_root, <<"/">>,
                            simplefs_fs_get_root(FormattedDisk))} :
          /\ mounts' = r.mounts
          /\ vfs_root' = r.root
    /\ fs_call' = [NoFsCall EXCEPT !.op = "mount"]
    /\ UNCHANGED file_descriptors
    /\ FsStep

\* simplefs_create and vfs_mount("/") on a device that already holds an image.
MountImage(D) ==
    /\ ~vfs_root.valid
    /\ disk' = D
    /\ \E r \in {vfs_mount(mounts, vfs_root, <<"/">>, simplefs_fs_get_root(D))} :
          /\ mounts' = r.mounts
          /\ vfs_root' = r.root
    /\ fs_call' = [NoFsCall EXCEPT !.op = "mount"]
    /\ UNCHANGED file_descriptors
    /\ FsStep

VfsOpen(path) ==
    /\ \E r \in {vfs_open(vfs_root, disk, file_descriptors, path)} :
          /\ file_descriptors' = r.fds
          /\ fs_call' = [NoFsCall EXCEPT !.op = "open", !.path = path, !.ret = r.ret]
    /\ UNCHANGED <<disk, vfs_root, mounts>>
    /\ FsStep

VfsClose(fd) ==
    /\ \E r \in {vfs_close(file_descriptors, fd)} :
          /\ file_descriptors' = r.fds
          /\ fs_call' = [NoFsCall EXCEPT !.op = "close", !.fd = fd, !.ret = r.ret]
    /\ UNCHANGED <<disk, vfs_root, mounts>>
    /\ FsStep

VfsRead(fd, size) ==
    /\ \E r \in {vfs_read(file_descriptors, fd, size)} :
          /\ file_descriptors' = r.fds
          /\ fs_call' = [op |-> "read", path |-> <<>>, fd |-> fd, size |-> size,
                         ret |-> r.ret]
    /\ UNCHANGED <<disk, vfs_root, mounts>>
    /\ FsStep

VfsWrite(fd, size) ==
    /\ \E r \in {vfs_write(file_descriptors, fd, size)} :
          /\ file_descriptors' = r.fds
          /\ fs_call' = [op |-> "write", path |-> <<>>, fd |-> fd, size |-> size,
                         ret |-> r.ret]
    /\ UNCHANGED <<disk, vfs_root, mounts>>
    /\ FsStep

fs_mount_formatted == MountFormatted

fs_mount_image == \E D \in DiskImages : MountImage(D)

fs_open == \E path \in FsPaths : VfsOpen(path)

fs_close == \E fd \in FsFds : VfsClose(fd)

fs_read == \E fd \in FsFds, size \in FsSizes : VfsRead(fd, size)

fs_write == \E fd \in FsFds, size \in FsSizes : VfsWrite(fd, size)

NextVFS ==
    \/ fs_mount_formatted
    \/ fs_mount_image
    \/ fs_open
    \/ fs_close
    \/ fs_read
    \/ fs_write

InitVFS == BootState(PmmPages)

SpecVFS == InitVFS /\ [][NextVFS]_vars

\* The slot vfs_alloc_fd takes: the lowest one that is not in use.
LowestFree(fds) ==
    CHOOSE i \in FdSlots : ~fds[i].in_use /\ \A k \in 0..(i - 1) : fds[k].in_use

\* path is /name or /name/ for an entry name of the root directory on disk.
NamesRootEntry(path) ==
    /\ disk.inodes[0].type = SIMPLEFS_TYPE_DIR
    /\ \E i \in DOMAIN disk.dirs[disk.inodes[0].direct[0]] :
          LET name == disk.dirs[disk.inodes[0].direct[0]][i].name
          IN  path \in {<<"/">> \o name, <<"/">> \o name \o <<"/">>}

\* C23 as stated: with a filesystem mounted at /, open("/") returns a
\* descriptor that refers to the root node.
C23_OpenRootSucceeds ==
    [][(VfsOpen(RootPath) /\ vfs_root.valid)
          => /\ fs_call'.ret \in FdSlots
             /\ file_descriptors'[fs_call'.ret].node = vfs_root]_vars

\* C23, amended: with a filesystem mounted at /, open("/") returns the lowest
\* free descriptor, now in use at offset 0 on the root node, the other slots
\* unchanged, and returns -1 with the table unchanged when no slot is free;
\* open of an absolute path other than / that names no entry of the root
\* directory returns -1 and leaves the descriptor table unchanged.
C23_OpenRootOrFail ==
    [][\A path \in FsPaths :
          (VfsOpen(path) /\ vfs_root.valid) =>
             IF path = RootPath
             THEN IF \E i \in FdSlots : ~file_descriptors[i].in_use
                  THEN /\ fs_call'.ret = LowestFree(file_descriptors)
                       /\ file_descriptors' =
                             [file_descriptors EXCEPT ![fs_call'.ret] =
                                 [node |-> vfs_root, offset |-> 0, in_use |-> TRUE]]
                  ELSE /\ fs_call'.ret = -1
                       /\ UNCHANGED file_descriptors
             ELSE (path # <<>> /\ Head(path) = "/" /\ ~NamesRootEntry(path))
                     => /\ fs_call'.ret = -1
                        /\ UNCHANGED file_descriptors]_vars

\* With / mounted and a descriptor open, an open of a path that is on the
\* disk but does not resolve (/d/b) has returned -1.
C23_Witness ==
    /\ vfs_root.valid
    /\ disk = FileDisk
    /\ file_descriptors[0].in_use
    /\ file_descriptors[0].node = vfs_root
    /\ ~file_descriptors[1].in_use
    /\ fs_call.op = "open"
    /\ fs_call.path = <<"/", "d", "/", "b">>
    /\ fs_call.ret = -1

\* C24: a read or write on an open descriptor that returns n > 0 moves that
\* descriptor's offset forward by n; one that returns 0 or -1 leaves it where
\* it was; no other descriptor changes.
C24_OffsetAdvances ==
    [][\A fd \in FdSlots, size \in FsSizes :
          ((VfsRead(fd, size) \/ VfsWrite(fd, size)) /\ file_descriptors[fd].in_use)
          => /\ fs_call'.ret >= -1
             /\ file_descriptors' =
                   [file_descriptors EXCEPT ![fd].offset =
                       IF fs_call'.ret > 0 THEN @ + fs_call'.ret ELSE @]]_vars

\* A read has transferred the last bytes of a file: it returned fewer bytes
\* than asked and the offset is at the file's size.
C24_Witness ==
    /\ fs_call.op = "read"
    /\ fs_call.fd \in FdSlots
    /\ fs_call.ret > 0
    /\ fs_call.ret < fs_call.size
    /\ file_descriptors[fs_call.fd].in_use
    /\ file_descriptors[fs_call.fd].offset = FileSize

\* C25: a read of n bytes at offset k through a descriptor opened by path on
\* a regular file of size S returns min(n, S - k) when k < S and 0 when
\* k >= S.
C25_ReadReturnsMin ==
    [][\A fd \in FdSlots, size \in FsSizes :
          (/\ VfsRead(fd, size)
           /\ file_descriptors[fd].in_use
           /\ file_descriptors[fd].node.inode # 0
           /\ file_descriptors[fd].node.type = SIMPLEFS_TYPE_FILE)
          => LET S == simplefs_read_inode(disk, file_descriptors[fd].node.inode).size
                 k == file_descriptors[fd].offset
             IN  fs_call'.ret = IF k >= S THEN 0
                                ELSE IF size < S - k THEN size ELSE S - k]_vars

\* ------------------------------------------------ the block specification
\* Byte-addressed reads and writes on a device of DevNumBlocks blocks, at
\* offsets and lengths on and off block boundaries, within the device.
BlkOffsets == {0, 100, BLOCK_SIZE, BLOCK_SIZE + 100, 2 * BLOCK_SIZE}
BlkSizes == {0, 100, BLOCK_SIZE, BLOCK_SIZE + 100, 2 * BLOCK_SIZE}

BlkStep ==
    /\ bootpc = "timer_init"
    /\ UNCHANGED <<schedVars, pmmVars, histVars, vga, vmmVars, heapVars, trapVars,
                   fsVars, atomVars, preVars, swVars>>

BlockRead(offset, size) ==
    /\ offset \div BLOCK_SIZE + BlocksNeeded(offset, size) <= DevNumBlocks
    /\ \E r \in DevOutcomes(BlocksNeeded(offset, size)) :
          \E b \in {block_read(offset, size, r)} :
             blk_call' = [op |-> "read", offset |-> offset, size |-> size,
                          ret |-> b.ret, moved |-> b.moved]
    /\ UNCHANGED dev_blocks
    /\ BlkStep

BlockWrite(offset, size) ==
    /\ offset \div BLOCK_SIZE + BlocksNeeded(offset, size) <= DevNumBlocks
    /\ \E r \in DevOutcomes(BlocksNeeded(offset, size)) :
          \E b \in {block_write(offset, size, r)} :
             /\ blk_call' = [op |-> "write", offset |-> offset, size |-> size,
                             ret |-> b.ret, moved |-> b.moved]
             /\ dev_blocks' =
                   [k \in DOMAIN dev_blocks |->
                       \/ dev_blocks[k]
                       \/ (k >= offset \div BLOCK_SIZE
                           /\ k < offset \div BLOCK_SIZE + b.moved)]
    /\ BlkStep

blk_read == \E offset \in BlkOffsets, size \in BlkSizes : BlockRead(offset, size)

blk_write == \E offset \in BlkOffsets, size \in BlkSizes : BlockWrite(offset, size)

NextBlock ==
    \/ blk_read
    \/ blk_write

InitBlock == BootState(PmmPages)

SpecBlock == InitBlock /\ [][NextBlock]_vars

\* C26: a block_read or block_write whose byte offset or length is not a
\* multiple of the block size returns -1 and moves no block to or from the
\* caller's buffer.
C26_UnalignedRejected ==
    (/\ blk_call.op \in {"read", "write"}
     /\ (blk_call.offset % BLOCK_SIZE # 0 \/ blk_call.size % BLOCK_SIZE # 0))
    => (blk_call.ret = -1 /\ blk_call.moved = 0)

\* ----------------------------------------- the preemption specification
\* The scheduler with two kernel tasks, where scheduler_block runs as the two
\* parts a timer interrupt can separate: the store of PROCESS_STATE_BLOCKED,
\* then scheduler_remove_process and scheduler_yield.  The code masks no
\* interrupt around them.
MaxOpLog == 2

Logged(step) ==
    IF op_pre.owner # NULL /\ Len(op_log) < MaxOpLog
    THEN Append(op_log, step)
    ELSE op_log

AtomStep ==
    UNCHANGED <<histVars, vga, vmmVars, heapVars, trapVars, fsVars, blkVars, preVars,
                swVars>>

\* IRQ0 at any point where interrupts are enabled.
atom_timer_irq ==
    /\ interrupts_on
    /\ Interrupt32(CurK)
    /\ op_log' = Logged("tick")
    /\ UNCHANGED <<bootpc, interrupt_handlers, interrupts_on, timer_frequency,
                   next_pid, scheduler_running, pmmVars, op_pre>>
    /\ AtomStep

\* scheduler_yield by the running task.
atom_yield ==
    /\ SchedulerYield
    /\ op_log' = Logged("yield")
    /\ UNCHANGED op_pre
    /\ AtomStep

\* scheduler_block up to current->state = PROCESS_STATE_BLOCKED.
atom_block_begin ==
    /\ TaskCalls
    /\ current_process = cpu
    /\ op_pre.owner = NULL
    /\ procs' = [procs EXCEPT ![cpu].state = BLOCKED, ![cpu].pc = "block_mid"]
    /\ op_pre' = [owner |-> cpu, K |-> CurK]
    /\ op_log' = <<>>
    /\ UNCHANGED <<bootpc, interrupt_handlers, interrupts_on, timer_ticks,
                   timer_frequency, next_pid, current_process, ready_queue_head,
                   ready_queue_tail, ready_count, scheduler_running, cpu, pmmVars>>
    /\ AtomStep

\* The rest of scheduler_block: scheduler_remove_process(current) and the
\* `int $32` of scheduler_yield.
atom_block_end ==
    /\ cpu # BOOT
    /\ procs[cpu].pc = "block_mid"
    /\ op_pre.owner = cpu
    /\ Interrupt32([CurK EXCEPT !.q = scheduler_remove_process(
                                          [CurQ EXCEPT !.procs[cpu].pc = "body"], cpu)])
    /\ op_pre' = NoOp
    /\ op_log' = <<>>
    /\ UNCHANGED <<bootpc, interrupt_handlers, interrupts_on, timer_frequency,
                   next_pid, scheduler_running, pmmVars>>
    /\ AtomStep

NextAtom ==
    \/ timer_init
    \/ process_init
    \/ scheduler_init
    \/ scheduler_start
    \/ process_create_kernel_task
    \/ scheduler_add
    \/ atom_timer_irq
    \/ atom_yield
    \/ atom_block_begin
    \/ atom_block_end

SpecAtom == Init /\ [][NextAtom]_vars

\* The kernel state after a timer interrupt in state K, and after a whole
\* scheduler_block by K's current task with no interrupt inside it.
TickK(K) == isr_common_handler(K, timer_ticks).k
BlockK(K) ==
    isr_common_handler(
        [K EXCEPT !.q = scheduler_remove_process(
                            [K.q EXCEPT !.procs[K.current].state = BLOCKED], K.current)],
        timer_ticks).k

\* C27: when exactly one timer interrupt, and no other trap, arrives inside a
\* scheduler_block, the state the call leaves is the one left by the
\* interrupt followed by the whole call, or by the whole call followed by the
\* interrupt.
C27_BlockAtomic ==
    [][(atom_block_end /\ op_log = <<"tick">>)
          => [q |-> Sched(procs', ready_queue_head', ready_queue_tail', ready_count'),
              current |-> current_process', cpu |-> cpu']
                \in {BlockK(TickK(op_pre.K)), TickK(BlockK(op_pre.K))}]_vars

\* ------------------------------------- the allocator preemption specification
\* Two tasks call pmm_alloc_page and pmm_free_page; a timer interrupt switches
\* between them at any point.  pmm_alloc_page runs as the two parts an
\* interrupt can separate: find_free_page, then bitmap_set and used_pages++.
\* The code masks no interrupt around them.
PreStep ==
    /\ bootpc = "timer_init"
    /\ UNCHANGED <<schedVars, histVars, vga, vmmVars, heapVars, trapVars, fsVars,
                   blkVars, atomVars, swVars>>

\* pmm_alloc_page up to the test of find_free_page's result; a full bitmap
\* returns 0.
pre_find ==
    /\ pre_local[pre_task].pc = "idle"
    /\ used_pages <= total_pages
    /\ find_free_page(CurM) # NOPAGE
    /\ pre_local' = [pre_local EXCEPT ![pre_task].pc = "set",
                                      ![pre_task].page = find_free_page(CurM)]
    /\ UNCHANGED <<pmmVars, pre_task>>
    /\ PreStep

\* The rest of pmm_alloc_page: bitmap_set(page), used_pages++, return.
pre_set ==
    /\ pre_local[pre_task].pc = "set"
    /\ page_bitmap' = page_bitmap \cup {pre_local[pre_task].page}
    /\ used_pages' = used_pages + 1
    /\ pre_local' = [pre_local EXCEPT ![pre_task].pc = "idle",
                                      ![pre_task].page = NOPAGE,
                                      ![pre_task].owned = @ \cup {pre_local[pre_task].page}]
    /\ UNCHANGED <<total_pages, pre_task>>
    /\ PreStep

\* pmm_free_page of a frame the task holds.
pre_free ==
    /\ pre_local[pre_task].pc = "idle"
    /\ \E f \in pre_local[pre_task].owned :
          /\ SetM(pmm_free_page(CurM, f * PAGE_SIZE))
          /\ pre_local' = [pre_local EXCEPT ![pre_task].owned = @ \ {f}]
    /\ UNCHANGED pre_task
    /\ PreStep

\* A timer interrupt in which scheduler_schedule switches to the other task.
pre_tick ==
    /\ pre_task' = 3 - pre_task
    /\ UNCHANGED <<pmmVars, pre_local>>
    /\ PreStep

NextPreempt ==
    \/ pre_find
    \/ pre_set
    \/ pre_free
    \/ pre_tick

InitPreempt == BootState(PmmPages)

SpecPreempt == InitPreempt /\ [][NextPreempt]_vars

\* C28: no frame is held by both tasks, and whenever neither task is inside
\* pmm_alloc_page the allocator's count equals the number of bits set, as
\* after any sequential order of the calls.
C28_AllocatorAtomic ==
    /\ pre_local[1].owned \cap pre_local[2].owned = {}
    /\ (\A t \in PreTasks : pre_local[t].pc = "idle")
          => used_pages = Cardinality(page_bitmap)

\* C29: after a timer interrupt in which the running scheduler leaves a task on
\* the CPU, that task is the current task and the only task marked Running;
\* the task chosen may be the one that was already running.
C29_TickLeavesOneRunning ==
    [][(timer_irq /\ scheduler_running /\ cpu' \in Procs)
          => /\ current_process' = cpu'
             /\ \A p \in Procs : (procs'[p].state = RUNNING) <=> (p = cpu')]_vars

\* ----------------------------------------- the context switch specification
\* Kernel and user tasks are created and queued by the boot thread, the
\* scheduler is started, and timer interrupts switch between the tasks.  The
\* interrupt stub pushes the CPU's registers as the frame *regs, calls the
\* handler, and pops the frame back into the registers before iretq.
SwitchTasks == 2              \* tasks created in this specification
SwitchEntries == {PAGE_SIZE * 256}     \* entry points passed to the creation

SwStep == UNCHANGED <<histVars, vga, trapVars, fsVars, blkVars, atomVars, preVars>>

sw_create_kernel_task ==
    /\ BootCalls
    /\ next_pid <= SwitchTasks
    /\ CreateKernelTask(SwitchTasks, 0)
    /\ \E entry \in SwitchEntries :
          context' = IF procs'[next_pid] # procs[next_pid]
                     THEN [context EXCEPT ![next_pid] =
                             KernelContext(entry, procs'[next_pid].kernel_stack)]
                     ELSE context
    /\ UNCHANGED <<cpu_regs, kernel_tss, vmmVars, heapVars>>
    /\ SwStep

sw_create_user_task ==
    /\ next_pid <= SwitchTasks
    /\ CreateUser(0)
    /\ context' = IF procs'[next_pid] # procs[next_pid]
                  THEN [context EXCEPT ![next_pid] = UserContext]
                  ELSE context
    /\ UNCHANGED <<cpu_regs, kernel_tss, trapVars, fsVars, blkVars, atomVars, preVars>>

sw_scheduler_add ==
    /\ \E p \in Procs : SchedulerAdd(p)
    /\ UNCHANGED <<swVars, vmmVars, heapVars>>
    /\ SwStep

\* The code on the CPU changes a register.
sw_run ==
    /\ scheduler_running
    /\ cpu_regs' = [cpu_regs EXCEPT !["rax"] = 1 - @]
    /\ UNCHANGED <<schedVars, pmmVars, context, kernel_tss, vmmVars, heapVars>>
    /\ SwStep

\* A timer interrupt: scheduler_schedule with the frame the stub pushed.
sw_timer_irq ==
    /\ TimerIrq
    /\ IF current_process' # current_process
       THEN \E r \in {SwitchFrames(context, cpu_regs, current_process,
                                  current_process')} :
               /\ context' = r.context
               /\ cpu_regs' = r.regs
               /\ UNCHANGED kernel_tss
       ELSE UNCHANGED swVars
    /\ UNCHANGED <<vmmVars, heapVars>>
    /\ SwStep

NextSwitch ==
    \/ sw_create_kernel_task
    \/ sw_create_user_task
    \/ sw_scheduler_add
    \/ scheduler_start
    \/ sw_run
    \/ sw_timer_irq

SpecSwitch == InitUser /\ [][NextSwitch]_vars

\* C30: when a timer interrupt switches from task A to task B, A's saved
\* context holds the frame's general registers, rip, rsp, rflags, cs and ss as
\* they were at entry, and the frame the stub pops equals B's saved context in
\* those fields and in ds, es, fs and gs.
C30_SwitchCopiesFrame ==
    [][(sw_timer_irq /\ current_process \in Procs /\ current_process' \in Procs
          /\ current_process' # current_process)
          => /\ \A f \in FrameFields \ SegFields :
                   context'[current_process][f] = cpu_regs[f]
             /\ \A f \in FrameFields :
                   cpu_regs'[f] = context[current_process'][f]]_vars

\* ------------------------------------------------ heap list properties
\* The blocks linked from first_block, in list order.
HeapList == ListFrom(heap_mem, first_block)

HeapGrown == heap_end # 0 /\ heap_size > HeapInitPages * PAGE_SIZE

\* C31: after every completed kmalloc or kfree, no block of the list and its
\* successor are both free, also once kmalloc has expanded the heap.
C31_NoAdjacentFree ==
    \A i \in 1..(Len(HeapList) - 1) :
        ~(heap_mem[HeapList[i]].free /\ heap_mem[HeapList[i + 1]].free)

\* A grown heap in which a kfree has merged blocks and free and used blocks
\* alternate.
C31_Witness ==
    /\ HeapGrown
    /\ freed # {}
    /\ Len(HeapList) >= 3
    /\ \E i \in 1..Len(HeapList) : heap_mem[HeapList[i]].free
    /\ \E a \in DOMAIN heap_mem : a \notin {HeapList[i] : i \in 1..Len(HeapList)}

\* The heap specification with frames enough for kmalloc to expand the heap by
\* two pages at once.
GrowPages == 9

InitGrow == BootState(GrowPages)

SpecGrow == InitGrow /\ [][NextHeap]_vars

\* The sizes of the blocks linked from block current on, added up.
RECURSIVE SizeFrom(_, _)
SizeFrom(mem, current) ==
    IF current = NULL THEN 0
    ELSE mem[current].size + SizeFrom(mem, mem[current].next)

\* C32: after heap_init and after every completed kmalloc or kfree, the sizes
\* of the blocks of the list add up to heap_size, also once kmalloc has
\* expanded the heap.
C32_SizesSumToHeapSize ==
    heap_end # 0 => SizeFrom(heap_mem, first_block) = heap_size

\* ----------------------------------------- the full heap specification
\* kmalloc, kzalloc, krealloc and kfree on the heap of the heap specification.
Kzalloc(size) ==
    /\ bootpc = "timer_init"
    /\ heap_end # 0
    /\ Cardinality(DOMAIN heap_mem) < MaxHeaders
    /\ \E r \in {kzalloc(CurH, page_tables, CurM, current_pml4, size)} :
          /\ SetH(r.h)
          /\ page_tables' = r.t
          /\ SetM(r.m)
          /\ vga' = r.msg
          /\ live' = (live \cup {r.ret}) \ {NULL}
          /\ freed' = freed \ {r.ret}
    /\ UNCHANGED <<schedVars, histVars, current_pml4, vm_req, lateVars>>

Krealloc(ptr, new_size) ==
    /\ bootpc = "timer_init"
    /\ heap_end # 0
    /\ Cardinality(DOMAIN heap_mem) < MaxHeaders
    /\ \E r \in {krealloc(CurH, page_tables, CurM, current_pml4, ptr, new_size)} :
          /\ SetH(r.h)
          /\ page_tables' = r.t
          /\ SetM(r.m)
          /\ vga' = r.msg
          /\ live' = IF r.ret = ptr THEN live
                     ELSE ((live \ {ptr}) \cup {r.ret}) \ {NULL}
          /\ freed' = IF r.ret = ptr THEN freed
                      ELSE ((freed \cup {ptr}) \ {r.ret}) \ {NULL}
    /\ UNCHANGED <<schedVars, histVars, current_pml4, vm_req, lateVars>>

heap_zalloc ==
    /\ heap_end # 0
    /\ \E size \in KmallocSizes : Kzalloc(size)

heap_realloc ==
    /\ heap_end # 0
    /\ \E ptr \in live \cup freed \cup {NULL} :
          \E size \in KmallocSizes : Krealloc(ptr, size)

NextHeapAll ==
    \/ heap_boot
    \/ heap_alloc
    \/ heap_free
    \/ heap_zalloc
    \/ heap_realloc

SpecHeapAll == InitHeap /\ [][NextHeapAll]_vars

SpacePages == 39              \* frames managed in this specification
MaxSpaces == 2                \* calls of process_create_user on a full table
MaxTaken == 2                 \* frames other kernel code holds at a time

InitSpace == UserState(SpacePages)

SpaceStep ==
    /\ bootpc = "tasks"
    /\ UNCHANGED <<picks, sleep_call, last_alloc, lateVars>>

space_kernel_task ==
    /\ CreateKernelTask(MaxProcs, 0)
    /\ UNCHANGED <<held, vga, vmmVars, heapVars>>
    /\ SpaceStep

SpaceCreateUser ==
    /\ TableFull
    /\ next_pid <= MaxProcs + MaxSpaces
    /\ \E r \in {process_create_user(CurH, page_tables, CurM, current_pml4,
                                     next_pid, TableFull)} :
          /\ SetH(r.h)
          /\ page_tables' = r.t
          /\ SetM(r.m)
          /\ next_pid' = IF r.pid_used THEN next_pid + 1 ELSE next_pid
    /\ UNCHANGED <<bootpc, interrupt_handlers, interrupts_on, timer_ticks,
                   timer_frequency, current_process, procs, ready_queue_head,
                   ready_queue_tail, ready_count, scheduler_running, cpu, held,
                   vga, current_pml4, vm_req, live, freed>>

space_create_user ==
    /\ SpaceCreateUser
    /\ SpaceStep

space_take_frame ==
    /\ Cardinality(held) < MaxTaken
    /\ \E a \in {pmm_alloc_page(CurM)} :
          /\ a.ret # 0
          /\ SetM(a.m)
          /\ held' = held \cup {a.ret \div PAGE_SIZE}
    /\ UNCHANGED <<schedVars, vga, vmmVars, heapVars>>
    /\ SpaceStep

space_give_frame ==
    /\ held # {}
    /\ \E f \in held :
          /\ SetM(pmm_free_page(CurM, f * PAGE_SIZE))
          /\ held' = held \ {f}
    /\ UNCHANGED <<schedVars, vga, vmmVars, heapVars>>
    /\ SpaceStep

NextSpace ==
    \/ space_kernel_task
    \/ space_create_user
    \/ space_take_frame
    \/ space_give_frame

SpecSpace == InitSpace /\ [][NextSpace]_vars

\* The page-table frames reached from the entries of top-level table pml4
\* whose index is in half.
TablesUnder(T, pml4, half) ==
    LET Sub(tb, idx) == {TableAt(T, tb)[i].frame :
                            i \in {x \in idx : PAGE_PRESENT \in TableAt(T, tb)[x].flags}}
        all == 0..(VmmFan - 1)
        l3 == Sub(pml4, half)
        l2 == UNION {Sub(a, all) : a \in l3}
        l1 == UNION {Sub(b, all) : b \in l2}
    IN  l3 \cup l2 \cup l1

UpperIndexes == UpperHalf..(VmmFan - 1)

\* C34: the vmm_destroy_address_space of a process_create_user that found the
\* process table full frees no page table reached through the upper half of
\* the kernel's top-level table.
C34_DestroyLowerHalfOnly ==
    [][SpaceCreateUser
          => TablesUnder(page_tables, current_pml4, UpperIndexes) \cap page_bitmap
                \subseteq page_bitmap']_vars


\* ------------------------------------------------- the shape of the ready queue
\* The tasks reached from task p by next links, at most fuel of them.
RECURSIVE ReadyFrom(_, _, _)
ReadyFrom(ps, p, fuel) ==
    IF p = NULL \/ fuel = 0 THEN <<>>
    ELSE <<p>> \o ReadyFrom(ps, ps[p].next, fuel - 1)

ReadyList == ReadyFrom(procs, ready_queue_head, MaxProcs + 1)

\* C35: after any sequence of scheduler add, remove, tick, yield, block and
\* unblock operations the ready queue is a doubly-linked list from head to
\* tail: the next links from the head end at the tail without meeting a task
\* twice, every prev link is the inverse of a next link, and ready_count is the
\* number of tasks in the list.
C35_ReadyQueueWellFormed ==
    LET L == ReadyList
        n == Len(L)
    IN  /\ \A i, j \in 1..n : L[i] = L[j] => i = j
        /\ ready_queue_tail = (IF n = 0 THEN NULL ELSE L[n])
        /\ n > 0 => procs[L[1]].prev = NULL
        /\ \A i \in 2..n : procs[L[i]].prev = L[i - 1]
        /\ ready_count = n


\* C36: a task that is Zombie (it exited) or Dead (it was killed) is not
\* marked Running by any later step, and no later step switches the CPU to it.
C36_TerminatedNeverRuns ==
    [][\A p \in Procs :
          procs[p].state \in {ZOMBIE, DEAD}
             => /\ procs'[p].state # RUNNING
                /\ cpu' = p => cpu = p]_vars


\* C37: whenever a user-mode task is on the CPU, the rsp0 of the task state
\* segment, which the CPU loads on a trap from ring 3, is the top of that
\* task's own kernel stack.
C37_TrapStackIsOwn ==
    \A p \in Procs :
        (cpu = p /\ cpu_regs["cs"] = USER_CS)
            => kernel_tss.rsp0 = procs[p].kernel_stack


\* ------------------------------------------ the aligned allocation specification
\* kmalloc_aligned and kfree on the heap of the heap specification.
AlignSizes == {0, 1000}
Alignments == {8, 64}

\* What the 32 bytes before a pointer hold when no block header was written
\* there: data of the caller, without the magic or with it.
StrayHeaders == {ZeroHeader, Block(MIN_BLOCK_SIZE, FALSE, NULL, NULL)}

KmallocAligned(size, alignment) ==
    /\ bootpc = "timer_init"
    /\ heap_end # 0
    /\ Cardinality(DOMAIN heap_mem) < MaxHeaders
    /\ \E r \in {kmalloc_aligned(CurH, page_tables, CurM, current_pml4, size, alignment)} :
          /\ SetH(r.h)
          /\ page_tables' = r.t
          /\ SetM(r.m)
          /\ vga' = r.msg
          /\ live' = (live \cup {r.ret}) \ {NULL}
          /\ freed' = freed \ {r.ret}
    /\ UNCHANGED <<schedVars, histVars, current_pml4, vm_req, lateVars>>

\* kfree(ptr) for a pointer that need not follow a block header.
KfreeAt(ptr) ==
    /\ bootpc = "timer_init"
    /\ heap_end # 0
    /\ \E hd \in (IF ptr - HDR_SIZE \in DOMAIN heap_mem
                  THEN {heap_mem[ptr - HDR_SIZE]} ELSE StrayHeaders) :
         \E r \in {kfree([CurH EXCEPT !.mem = Poke(heap_mem, ptr - HDR_SIZE, hd)], ptr)} :
            /\ SetH(r.h)
            /\ vga' = r.msg
    /\ live' = live \ {ptr}
    /\ freed' = (freed \cup {ptr}) \ {NULL}
    /\ UNCHANGED <<schedVars, pmmVars, histVars, vmmVars, lateVars>>

heap_alloc_aligned ==
    \E size \in AlignSizes : \E alignment \in Alignments : KmallocAligned(size, alignment)

heap_free_at == \E ptr \in live : KfreeAt(ptr)

NextAligned ==
    \/ heap_boot
    \/ heap_alloc_aligned
    \/ heap_free_at

SpecAligned == InitHeap /\ [][NextAligned]_vars

\* The block of the list whose data holds address ptr (NULL if none does).
BlockOf(ptr) ==
    LET bs == {b \in {HeapList[i] : i \in 1..Len(HeapList)} :
                  b + HDR_SIZE <= ptr /\ ptr < b + heap_mem[b].size}
    IN  IF bs = {} THEN NULL ELSE CHOOSE b \in bs : TRUE

\* C38: kfree of a pointer returned by kmalloc_aligned and not yet freed
\* releases the block under it: the allocation count goes down by one and the
\* used size by the size of that block, as the allocation had raised them.
C38_AlignedFreeReleases ==
    [][\A ptr \in live :
          KfreeAt(ptr)
          => /\ allocation_count' = allocation_count - 1
             /\ heap_get_used_size(CurH)'
                   = heap_get_used_size(CurH) - heap_mem[BlockOf(ptr)].size]_vars


\* ---------------------------------------------------- the mount specification
\* vfs_mount and vfs_unmount of the filesystem on the device, with open and
\* close, after vfs_init.
MountPaths == {RootPath, <<"/", "d">>}

VfsMount(path) ==
    /\ \E r \in {vfs_mount(mounts, vfs_root, path, simplefs_fs_get_root(disk))} :
          /\ mounts' = r.mounts
          /\ vfs_root' = r.root
          /\ fs_call' = [NoFsCall EXCEPT !.op = "mount", !.path = path, !.ret = r.ret]
    /\ UNCHANGED <<disk, file_descriptors>>
    /\ FsStep

VfsUnmount(path) ==
    /\ \E r \in {vfs_unmount(mounts, path)} :
          /\ mounts' = r.mounts
          /\ fs_call' = [NoFsCall EXCEPT !.op = "unmount", !.path = path, !.ret = r.ret]
    /\ UNCHANGED <<disk, vfs_root, file_descriptors>>
    /\ FsStep

mnt_mount == \E path \in MountPaths : VfsMount(path)

mnt_unmount == \E path \in MountPaths : VfsUnmount(path)

NextMount ==
    \/ mnt_mount
    \/ mnt_unmount
    \/ fs_open
    \/ fs_close

SpecMount == InitVFS /\ [][NextMount]_vars

\* Some slot of the mount table is in use for the path /.
RootMounted == \E i \in MountSlots : mounts[i].in_use /\ mounts[i].path = RootPath

\* C39: while no filesystem is mounted at /, also after an unmount of /,
\* resolving / gives no node, and an open of / has returned -1.
C39_UnmountedRootGone ==
    ~RootMounted
        => /\ ~vfs_resolve_path(vfs_root, disk, RootPath).valid
           /\ (fs_call.op = "open" /\ fs_call.path = RootPath) => fs_call.ret = -1


\* C40: across open and close calls, the descriptor an open returns was not in
\* use before the call, the entries of the other descriptors are left as they
\* were, and with every descriptor in use an open returns -1 and changes no
\* entry of the descriptor table.
C40_OpenNeverReusesFd ==
    [][\A path \in FsPaths :
          VfsOpen(path) =>
             /\ fs_call'.ret \in FdSlots
                   => /\ ~file_descriptors[fs_call'.ret].in_use
                      /\ \A i \in FdSlots \ {fs_call'.ret} :
                            file_descriptors'[i] = file_descriptors[i]
             /\ (\A i \in FdSlots : file_descriptors[i].in_use)
                   => /\ fs_call'.ret = -1
                      /\ file_descriptors' = file_descriptors]_vars

\* An open of a path that resolves has returned -1 with every descriptor in
\* use, after a close had freed a descriptor that a later open took again.
C40_Witness ==
    /\ \A i \in FdSlots : file_descriptors[i].in_use
    /\ fs_call.op = "open"
    /\ fs_call.path = <<"/", "a">>
    /\ fs_call.ret = -1
    /\ \E i, j \in FdSlots : file_descriptors[i].node # file_descriptors[j].node

====
